---- MODULE Spec2Model ----
(***************************************************************************)
(* Model of the query fan-out proxy, pkg/store/proxy.go: ProxyStore.Series *)
(* with its backend filters, the open-time fan-out under the partial       *)
(* response strategies, and the pull loop over the merged, deduplicated    *)
(* stream.                                                                 *)
(*                                                                         *)
(* Label names are strings, label values are naturals (0 is the empty      *)
(* string, which labels.Get returns for an absent label).  A label set is  *)
(* a sequence of <<name, value>> pairs sorted by name.                     *)
(***************************************************************************)
EXTENDS Integers, Sequences, FiniteSets, TLC

VARIABLES
    req,                 \* the SeriesRequest (originalRequest)
    selectorLabels,      \* ProxyStore.selectorLabels
    storeDebugMatcher,   \* ctx.Value(StoreMatcherKey): list of matcher groups
    tsdbSelector,        \* ProxyStore.tsdbSelector: "nil" or a keep-matcher list
    snapshot,            \* s.stores(): sequence of backend descriptors
    served,              \* the responses the backends can stream during the request;
                         \* for LabelNames and LabelValues, what a backend call can return
    quota,               \* the number of responses they stream in total, at most
    pc,                  \* position of the operation: start, select, fanout, merge of
                         \* Series, info of Info, done
    matchers,            \* matchers left by matchesExternalLabels
    stores,              \* filtered backends (indices into snapshot)
    storeLabelSets,      \* extra label sets returned by the TSDB selector
    groupReplicaStores,  \* [groupKey][replicaKey] -> number of eligible stores
    failedStores,        \* [groupKey][replicaKey] -> number of failures
    totalFailedStores,   \* totalFailedStores
    idx,                 \* index of the fan-out loop into stores
    opened,              \* history: newAsyncRespSet calls, [st, err]
    storeResponses,      \* cursors handed to the merger: [nil, st, stream]
    deferred,            \* deferred respSet.Close() calls
    closed,              \* per backend: number of Close() calls executed
    pos,                 \* per cursor: number of responses consumed by the merger
    prev,                \* last response returned by the deduplicator
    pulled,              \* history: responses returned by respHeap.At()
    sent,                \* responses sent on the caller's stream (srv.Send succeeded)
    sendFailed,          \* history: a srv.Send call returned an error
    result,              \* return value: of Series none, ok, an error code, panic;
                         \* of Info the InfoResponse; of LabelNames and
                         \* LabelValues [err, names, warnings]
    calls,               \* LabelNames, LabelValues: per queried store the goroutine
                         \* of g.Go: [state, err, names, warnings]
    warnings,            \* LabelNames, LabelValues: warnings
    names,               \* LabelNames: names, LabelValues: all
    gerr,                \* the first error returned by a goroutine of the errgroup
    spare,               \* LabelNames, LabelValues: the elements of the backing
                         \* array of r.Matchers between its length and its capacity
    subRequests,         \* LabelNames, LabelValues: per queried store the Matchers
                         \* of its sub-request: the slice append returned, and the
                         \* list the backend read from it
    lruCache,            \* FailedQueryCache.lruCache: entries [key, value], the least
                         \* recently used first
    callers,             \* per caller of the FailedQueryCache: where it is in
                         \* updateFailedQueryCache, and the value of its last call
    recorded,            \* history, per normalized query: the range lengths recorded
                         \* since it was last evicted (live) and ever (ever)
    cfg,                 \* Handler.cfg.FailedQueryCacheCapacity
    handlerCache,        \* Handler.lruCache (nil when cfg <= 0): entries [key, value],
                         \* the least recently used first
    serving,             \* per request of the Handler: where ServeHTTP is, its locals
                         \* and the response of the last request
    handlerRecorded,     \* history, per normalized query: the range lengths the
                         \* Handler recorded since it was last evicted
    incoming             \* the query a client hands to the Handler and to a
                         \* FailedQueryCache alike, the outcome of its round trip,
                         \* and how far each of the two got with it

vars == <<req, selectorLabels, storeDebugMatcher, tsdbSelector, snapshot, served, quota, pc,
          matchers, stores, storeLabelSets, groupReplicaStores, failedStores,
          totalFailedStores, idx, opened, storeResponses, deferred, closed,
          pos, prev, pulled, sent, sendFailed, result, calls, warnings, names, gerr,
          spare, subRequests,
          lruCache, callers, recorded,
          cfg, handlerCache, serving, handlerRecorded, incoming>>

\* the variables of ProxyStore's operations
proxyVars ==
    <<req, selectorLabels, storeDebugMatcher, tsdbSelector, snapshot, served, quota, pc,
      matchers, stores, storeLabelSets, groupReplicaStores, failedStores,
      totalFailedStores, idx, opened, storeResponses, deferred, closed,
      pos, prev, pulled, sent, sendFailed, result, calls, warnings, names, gerr,
      spare, subRequests>>

\* the variables of the FailedQueryCache
cacheVars == <<lruCache, callers, recorded>>

\* the variables of the Handler
handlerVars == <<cfg, handlerCache, serving, handlerRecorded>>

\* the variables of LabelNames and LabelValues
labelVars == <<calls, warnings, names, gerr, spare, subRequests>>

\* ------------------------------------------------------------------ bounds

\* Largest backend snapshot.
MaxStores == 2
\* Largest number of responses the backends of one request stream in total.
MaxResponses == 2
\* The same, for the requests that exercise the merger and the deduplicator.
MaxMerged == 4

\* ------------------------------------------------------------ small helpers

Range(s) == {s[k] : k \in 1..Len(s)}

RECURSIVE SeqSum(_)
SeqSum(s) == IF s = <<>> THEN 0 ELSE Head(s) + SeqSum(Tail(s))

Count(s, P(_)) == Cardinality({k \in 1..Len(s) : P(s[k])})

EmptyMap == [x \in {} |-> 0]

Put(f, k, v) == [x \in (DOMAIN f) \cup {k} |-> IF x = k THEN v ELSE f[x]]

SeqsUpTo(S, n) == UNION {[1..k -> S] : k \in 0..n}

\* ------------------------------------------------------------------ labels

\* labels.Labels.Has
Has(ls, name) == \E k \in 1..Len(ls) : ls[k][1] = name

\* labels.Labels.Get: the value, or the empty string (0) when absent
Get(ls, name) ==
    IF Has(ls, name)
    THEN LET k == CHOOSE j \in 1..Len(ls) : ls[j][1] = name IN ls[k][2]
    ELSE 0

\* labels.Matcher.Matches for the equality matchers MatchEqual / MatchNotEqual
Matches(m, v) == IF m.type = "EQ" THEN v = m.value ELSE v # m.value

\* labelSetsMatch (mutant): AND between the label sets instead of OR
labelSetsMatchAll(ms, lsets) ==
    \A k \in 1..Len(lsets) :
        \A j \in 1..Len(ms) :
            ~(Has(lsets[k], ms[j].name) /\ ~Matches(ms[j], Get(lsets[k], ms[j].name)))

\* labelSetsMatch: false iff no label set matches the matchers (OR between the
\* label sets); a matcher fails a set iff the set has its name and the value
\* does not match; no label set at all matches.
labelSetsMatch(ms, lsets) ==
    IF Len(lsets) = 0
    THEN TRUE
    ELSE \E k \in 1..Len(lsets) :
            \A j \in 1..Len(ms) :
                ~(Has(lsets[k], ms[j].name) /\ ~Matches(ms[j], Get(lsets[k], ms[j].name)))

\* storeMatchDebugMetadata (mutant): a local store passes the address filter
storeMatchDebugMetadataLocalPasses(s, sdm) ==
    IF Len(sdm) = 0
    THEN TRUE
    ELSE s.isLocal
         \/ \E k \in 1..Len(sdm) :
                labelSetsMatch(sdm[k], << << <<"__address__", s.addr>> >> >>)

\* storeMatchDebugMetadata: true if the store's address matches the debug matchers
storeMatchDebugMetadata(s, sdm) ==
    IF Len(sdm) = 0
    THEN TRUE
    ELSE IF s.isLocal
    THEN FALSE
    ELSE \E k \in 1..Len(sdm) :
            labelSetsMatch(sdm[k], << << <<"__address__", s.addr>> >> >>)

\* storeMatches (mutant): strict comparisons in the time-overlap test
storeMatchesStrictTime(s, mint, maxt, ms, sdm) ==
    /\ ~(mint >= s.maxTime \/ maxt <= s.minTime)
    /\ storeMatchDebugMetadata(s, sdm)
    /\ labelSetsMatch(ms, s.labelSets)

\* storeMatches: may the store hold data for the time range, the debug
\* matchers of the context and the label matchers
storeMatches(s, mint, maxt, ms, sdm) ==
    /\ ~(mint > s.maxTime \/ maxt < s.minTime)
    /\ storeMatchDebugMetadata(s, sdm)
    /\ labelSetsMatch(ms, s.labelSets)

\* matchesExternalLabels: err when a matcher cannot be converted; match = FALSE
\* when a matcher names an external label whose value it does not match;
\* otherwise the matchers that name no external label.
matchesExternalLabels(ms, externalLabels) ==
    LET Agnostic(m) == Get(externalLabels, m.name) = 0 IN
    IF \E k \in 1..Len(ms) : ms[k].type = "INVALID"
    THEN [err |-> TRUE, match |-> FALSE, matchers |-> <<>>]
    ELSE IF Len(externalLabels) = 0
    THEN [err |-> FALSE, match |-> TRUE, matchers |-> ms]
    ELSE IF \E k \in 1..Len(ms) :
                /\ ~Agnostic(ms[k])
                /\ ~Matches(ms[k], Get(externalLabels, ms[k].name))
    THEN [err |-> FALSE, match |-> FALSE, matchers |-> <<>>]
    ELSE [err |-> FALSE, match |-> TRUE, matchers |-> SelectSeq(ms, Agnostic)]

\* TSDBSelector.MatchLabelSets: the default selector ("nil") and a store
\* without label sets match; otherwise the label sets kept by the selector's
\* matchers, which are returned as extra matchers for the sub-request.
MatchLabelSets(selector, lsets) ==
    IF selector = "nil" \/ Len(lsets) = 0
    THEN [matches |-> TRUE, extraMatchers |-> <<>>]
    ELSE LET Keep(ls) == \A j \in 1..Len(selector) :
                            Matches(selector[j], Get(ls, selector[j].name))
             kept == SelectSeq(lsets, Keep)
         IN  [matches |-> Len(kept) > 0, extraMatchers |-> kept]

\* bumpCounter (mutant): mp[key1][key2] += 2
bumpCounterByTwo(key1, key2, mp) ==
    LET inner == IF key1 \in DOMAIN mp THEN mp[key1] ELSE EmptyMap
        old   == IF key2 \in DOMAIN inner THEN inner[key2] ELSE 0
    IN  Put(mp, key1, Put(inner, key2, old + 2))

\* bumpCounter: mp[key1][key2]++, creating the inner map when missing
bumpCounter(key1, key2, mp) ==
    LET inner == IF key1 \in DOMAIN mp THEN mp[key1] ELSE EmptyMap
        old   == IF key2 \in DOMAIN inner THEN inner[key2] ELSE 0
    IN  Put(mp, key1, Put(inner, key2, old + 1))

\* len(mp[key1]) of a Go map of maps (0 for a missing key)
LenAt(mp, key1) == IF key1 \in DOMAIN mp THEN Cardinality(DOMAIN mp[key1]) ELSE 0

\* mp[key1][key2] of a Go map of maps (0 for a missing key)
ValAt(mp, key1, key2) ==
    IF key1 \in DOMAIN mp /\ key2 \in DOMAIN mp[key1] THEN mp[key1][key2] ELSE 0

\* checkGroupReplicaErrors: TRUE when it returns err (the request is aborted)
checkGroupReplicaErrors(gk, rk, failed, eligible) ==
    \/ LenAt(failed, gk) > 1
    \/ (LenAt(eligible, gk) = 1 /\ ValAt(failed, gk, rk) > 1)

\* proxy.go:433 (mutant): the disabled flag wins over strategy WARN
WarnOnOpenErrorDisabledWins(r) == ~r.disabled /\ r.policy = "WARN"

\* proxy.go:433: an open-time error is sent to the caller as a warning
WarnOnOpenError(r) == ~r.disabled \/ r.policy = "WARN"

\* proxy.go:464 (mutant): only strategy ABORT aborts on an in-stream warning
AbortOnWarningStrategyOnly(r) == r.policy = "ABORT"

\* proxy.go:464: an in-stream warning aborts the request
AbortOnWarning(r) == r.disabled \/ r.policy = "ABORT"

\* proxy.go:459 (mutant): two in-stream warnings are tolerated
TooManyFailedTwo(total) == total > 2

\* proxy.go:459: under GROUP_REPLICA more than one failure cannot be tolerated
TooManyFailed(total) == total > 1

\* ---------------------------------------------------------------- responses

\* storepb.NewSeriesResponse: a label set and its chunks, each [minTime, data]
NewSeriesResponse(lset, chunks) ==
    [type |-> "series", lset |-> lset, chunks |-> chunks, warning |-> ""]

\* storepb.NewWarnSeriesResponse
NewWarnSeriesResponse(text) ==
    [type |-> "warning", lset |-> <<>>, chunks |-> <<>>, warning |-> text]

\* no response yet
NoResponse == [type |-> "none", lset |-> <<>>, chunks |-> <<>>, warning |-> ""]

\* SeriesResponse.GetWarning() != ""
IsWarning(resp) == resp.type = "warning"

IsSeries(resp) == resp.type = "series"

\* byte order of the label names in use
NameRank(name) ==
    CASE name = "__address__" -> 0
      [] name = "a" -> 1
      [] name = "r" -> 2
      [] OTHER -> 3

\* labels.Compare: lexicographic on the (name, value) pairs, a prefix first
CompareLabels(a, b) ==
    LET n    == IF Len(a) < Len(b) THEN Len(a) ELSE Len(b)
        diff == {k \in 1..n : a[k] # b[k]}
    IN  IF diff = {}
        THEN (IF Len(a) < Len(b) THEN -1 ELSE IF Len(a) > Len(b) THEN 1 ELSE 0)
        ELSE LET k == CHOOSE j \in diff : \A j2 \in diff : j <= j2 IN
             IF a[k][1] # b[k][1]
             THEN (IF NameRank(a[k][1]) < NameRank(b[k][1]) THEN -1 ELSE 1)
             ELSE (IF a[k][2] < b[k][2] THEN -1 ELSE 1)

\* min_time of the first chunk (0 without chunks)
FirstMinTime(resp) == IF Len(resp.chunks) = 0 THEN 0 ELSE resp.chunks[1].minTime

\* The merge key of the k-th response of a stream: (labels, first chunk
\* min_time) of a series; a warning or hints response carries the key of the
\* series that was current when it was emitted (none before the first series).
RECURSIVE KeyAt(_, _)
KeyAt(stream, k) ==
    IF k = 0
    THEN [none |-> TRUE, lset |-> <<>>, minTime |-> 0]
    ELSE IF IsSeries(stream[k])
    THEN [none |-> FALSE, lset |-> stream[k].lset, minTime |-> FirstMinTime(stream[k])]
    ELSE KeyAt(stream, k - 1)

\* the stream ordering: is key x strictly before key y
KeyLess(x, y) ==
    IF x.none \/ y.none
    THEN x.none /\ ~y.none
    ELSE LET c == CompareLabels(x.lset, y.lset) IN
         c < 0 \/ (c = 0 /\ x.minTime < y.minTime)

\* a backend stream obeys the ordering guarantee
SortedStream(stream) ==
    \A k \in 1..Len(stream) : k > 1 => ~KeyLess(KeyAt(stream, k), KeyAt(stream, k - 1))

\* ------------------------------------------------------- merger, deduplicator

\* the stream behind cursor c of the merger
StreamOf(c) == storeResponses[c].stream

\* cursors of the loser tree that are not at the end of their stream
Live(p) == {c \in 1..Len(storeResponses) : p[c] < Len(StreamOf(c))}

\* the key of the current response of cursor c
HeadKey(p, c) == KeyAt(StreamOf(c), p[c] + 1)

\* loser tree winner (mutant): the larger index among equal keys
WinnerLargerIndex(p) ==
    CHOOSE c \in Live(p) :
        \A d \in Live(p) :
            /\ ~KeyLess(HeadKey(p, d), HeadKey(p, c))
            /\ (d > c => KeyLess(HeadKey(p, c), HeadKey(p, d)))

\* loser tree winner: the live cursor with the smallest key, the smaller index
\* among equal keys
Winner(p) ==
    CHOOSE c \in Live(p) :
        \A d \in Live(p) :
            /\ ~KeyLess(HeadKey(p, d), HeadKey(p, c))
            /\ (d < c => KeyLess(HeadKey(p, c), HeadKey(p, d)))

\* the deduplicator (mutant): a series with the label set of the response
\* before it is dropped, whatever its chunks
IsDuplicateSameLabels(last, resp) == IsSeries(resp) /\ IsSeries(last) /\ last.lset = resp.lset

\* the deduplicator (mutant): nothing is dropped
IsDuplicateNever(last, resp) == FALSE

\* the deduplicator drops a series that directly follows a response with the
\* same label set and the same chunks
IsDuplicate(last, resp) == IsSeries(resp) /\ last = resp

\* responseDeduplicator.Next/At over the loser tree: the next response that is
\* not dropped, with the cursor positions after it; ok = FALSE at the end
RECURSIVE DedupNext(_, _)
DedupNext(p, last) ==
    IF Live(p) = {}
    THEN [ok |-> FALSE, resp |-> NoResponse, pos |-> p]
    ELSE LET c    == Winner(p)
             resp == StreamOf(c)[p[c] + 1]
             p2   == [p EXCEPT ![c] = p[c] + 1]
         IN  IF IsDuplicate(last, resp)
             THEN DedupNext(p2, last)
             ELSE [ok |-> TRUE, resp |-> resp, pos |-> p2]

\* ------------------------------------------------------------------- Series

\* newAsyncRespSet: the cursor over the stream the backend serves, or a nil
\* respSet together with the error when the stream cannot be opened
newAsyncRespSet(st, err, stream) == [nil |-> err # "nil", st |-> st, stream |-> stream]

\* proxy.go:303-312 (mutant): the two early returns swapped
ReduceOutcomeSwapped(r) ==
    IF r.err THEN "invalid_argument"
    ELSE IF ~r.match THEN "invalid_argument"
    ELSE IF Len(r.matchers) = 0 THEN "ok"
    ELSE "continue"

\* proxy.go:303-312: what Series does with the result of matchesExternalLabels
ReduceOutcome(r) ==
    IF r.err THEN "invalid_argument"
    ELSE IF ~r.match THEN "ok"
    ELSE IF Len(r.matchers) = 0 THEN "invalid_argument"
    ELSE "continue"

\* proxy.go:359-378: the filter loop over the snapshot, from entry k on
RECURSIVE SelectStores(_, _)
SelectStores(k, acc) ==
    IF k > Len(snapshot)
    THEN acc
    ELSE LET st  == snapshot[k]
             sel == MatchLabelSets(tsdbSelector, st.labelSets)
         IN  IF ~storeMatches(st, req.minTime, req.maxTime, matchers, storeDebugMatcher)
             THEN SelectStores(k + 1, acc)
             ELSE IF ~sel.matches
             THEN SelectStores(k + 1, acc)
             ELSE SelectStores(k + 1,
                    [stores   |-> Append(acc.stores, k),
                     lsets    |-> acc.lsets \o sel.extraMatchers,
                     eligible |-> bumpCounter(st.gk, st.rk, acc.eligible)])

\* the deferred Close calls run when Series returns or panics
RunDeferred(defs) ==
    [b \in DOMAIN closed |-> closed[b] + Cardinality({k \in 1..Len(defs) : defs[k] = b})]

\* Series returns res (or panics)
Return(res, defs) ==
    /\ pc' = "done"
    /\ result' = res
    /\ deferred' = defs
    /\ closed' = RunDeferred(defs)

\* proxy.go:303-313: reduce the request matchers against the selector labels
Reduce ==
    /\ pc = "start"
    /\ LET r   == matchesExternalLabels(req.matchers, selectorLabels)
           out == ReduceOutcome(r)
       IN  IF out = "continue"
           THEN /\ matchers' = r.matchers
                /\ pc' = "select"
                /\ UNCHANGED <<result, deferred, closed>>
           ELSE /\ Return(out, deferred)
                /\ UNCHANGED matchers
    /\ UNCHANGED cacheVars
    /\ UNCHANGED <<handlerVars, incoming>>
    /\ UNCHANGED labelVars
    /\ UNCHANGED <<req, selectorLabels, storeDebugMatcher, tsdbSelector, snapshot, served, quota,
                   stores, storeLabelSets, groupReplicaStores, failedStores,
                   totalFailedStores, idx, opened, storeResponses, pos, prev,
                   pulled, sent, sendFailed>>

\* proxy.go:359-383: filter the snapshot and count the eligible stores
Select ==
    /\ pc = "select"
    /\ LET acc == SelectStores(1, [stores |-> <<>>, lsets |-> <<>>, eligible |-> EmptyMap])
       IN  /\ stores' = acc.stores
           /\ storeLabelSets' = acc.lsets
           /\ groupReplicaStores' = acc.eligible
           /\ IF Len(acc.stores) = 0
              THEN Return("ok", deferred)
              ELSE /\ pc' = "fanout"
                   /\ UNCHANGED <<result, deferred, closed>>
    /\ UNCHANGED cacheVars
    /\ UNCHANGED <<handlerVars, incoming>>
    /\ UNCHANGED labelVars
    /\ UNCHANGED <<req, selectorLabels, storeDebugMatcher, tsdbSelector, snapshot, served, quota,
                   matchers, failedStores, totalFailedStores, idx, opened,
                   storeResponses, pos, prev, pulled, sent, sendFailed>>

\* responses of the backend streams: series A, series B after it in the stream
\* ordering, series C with the key of A and other chunk data, and an in-stream
\* warning
SeriesA == NewSeriesResponse(<< <<"a", 1>> >>, << [minTime |-> 10, data |-> "X"] >>)
SeriesB == NewSeriesResponse(<< <<"a", 2>> >>, << [minTime |-> 20, data |-> "Y"] >>)
SeriesC == NewSeriesResponse(<< <<"a", 1>> >>, << [minTime |-> 10, data |-> "Z"] >>)
Warn    == NewWarnSeriesResponse("w")

\* the streams a backend can serve out of a set of responses: sorted, as the
\* merger requires
AllStreams ==
    [S \in SUBSET {SeriesA, SeriesB, SeriesC, Warn} |->
        {s \in SeqsUpTo(S, MaxMerged) : SortedStream(s)}]

\* the streams left to a backend: of the responses served in this request,
\* within what is left of the request's total
Streams(n) == {s \in AllStreams[served] : Len(s) <= n}

\* responses streamed by the cursors opened so far
Streamed(resps) == SeqSum([c \in 1..Len(resps) |-> Len(resps[c].stream)])

\* error codes of a stream that cannot be opened
OpenErrors == {"unavailable"}

\* proxy.go:417 (mutant): a store whose stream failed to open is tried again
NextStoreRetry(i, err) == IF err = "nil" THEN i + 1 ELSE i

\* proxy.go:417: the range loop goes on to the next store, whatever happened
NextStore(i, err) == i + 1

\* proxy.go:417-445: one iteration of the fan-out loop
Open ==
    /\ pc = "fanout"
    /\ \E err \in {"nil"} \cup OpenErrors, sendOk \in BOOLEAN :
       \E stream \in IF err = "nil"
                     THEN Streams(quota - Streamed(storeResponses))
                     ELSE {<<>>} :
        LET st      == stores[idx]
            b       == snapshot[st]
            respSet == newAsyncRespSet(st, err, stream)
            failed  == bumpCounter(b.gk, b.rk, failedStores)
            \* what the iteration does after newAsyncRespSet
            branch  ==
                IF err = "nil" THEN "append"
                ELSE IF req.policy = "GROUP_REPLICA"
                THEN (IF checkGroupReplicaErrors(b.gk, b.rk, failed, groupReplicaStores)
                      THEN "return_err" ELSE "append")
                ELSE IF WarnOnOpenError(req)
                THEN (IF sendOk THEN "warn_continue" ELSE "return_send_err")
                ELSE "return_err"
            \* line 444: defer respSet.Close() on a nil respSet panics
            panics  == branch = "append" /\ respSet.nil
            resps   == IF branch = "append"
                       THEN Append(storeResponses, respSet) ELSE storeResponses
            defs    == IF branch = "append" /\ ~panics
                       THEN Append(deferred, st) ELSE deferred
        IN  /\ (branch \notin {"warn_continue", "return_send_err"} => sendOk)
            /\ opened' = Append(opened, [st |-> st, err |-> err])
            /\ failedStores' = IF err = "nil" THEN failedStores ELSE failed
            /\ totalFailedStores' =
                   IF err = "nil" THEN totalFailedStores ELSE totalFailedStores + 1
            /\ storeResponses' = resps
            /\ sent' = IF branch = "warn_continue"
                       THEN Append(sent, NewWarnSeriesResponse(err)) ELSE sent
            /\ sendFailed' = (sendFailed \/ branch = "return_send_err")
            /\ IF panics THEN Return("panic", defs) /\ UNCHANGED <<idx, pos>>
               ELSE IF branch = "return_err" THEN Return(err, defs) /\ UNCHANGED <<idx, pos>>
               ELSE IF branch = "return_send_err"
               THEN Return("send_error", defs) /\ UNCHANGED <<idx, pos>>
               ELSE /\ idx' = NextStore(idx, err)
                    /\ pc' = IF idx' <= Len(stores) THEN "fanout" ELSE "merge"
                    /\ pos' = [c \in 1..Len(resps) |-> 0]
                    /\ deferred' = defs
                    /\ UNCHANGED <<result, closed>>
    /\ UNCHANGED cacheVars
    /\ UNCHANGED <<handlerVars, incoming>>
    /\ UNCHANGED labelVars
    /\ UNCHANGED <<req, selectorLabels, storeDebugMatcher, tsdbSelector, snapshot, served, quota,
                   matchers, stores, storeLabelSets, groupReplicaStores, prev, pulled>>

\* proxy.go:449-474: one iteration of the loop over the deduplicated merge
Pull ==
    /\ pc = "merge"
    /\ \E sendOk \in BOOLEAN, n \in {DedupNext(pos, prev)} :
        LET resp   == n.resp
            total  == IF n.ok /\ IsWarning(resp)
                      THEN totalFailedStores + 1 ELSE totalFailedStores
            branch ==
                IF ~n.ok THEN "return_nil"
                ELSE IF IsWarning(resp) /\ req.policy = "GROUP_REPLICA" /\ TooManyFailed(total)
                THEN "aborted"
                ELSE IF IsWarning(resp) /\ req.policy # "GROUP_REPLICA" /\ AbortOnWarning(req)
                THEN "aborted"
                ELSE IF sendOk THEN "sent" ELSE "unknown"
        IN  /\ pos' = n.pos
            /\ totalFailedStores' = total
            /\ prev' = IF n.ok THEN resp ELSE prev
            /\ pulled' = IF n.ok THEN Append(pulled, resp) ELSE pulled
            /\ sent' = IF branch = "sent" THEN Append(sent, resp) ELSE sent
            /\ sendFailed' = (sendFailed \/ branch = "unknown")
            /\ IF branch = "return_nil" THEN Return("ok", deferred)
               ELSE IF branch = "sent" THEN UNCHANGED <<pc, result, deferred, closed>>
               ELSE Return(branch, deferred)
    /\ UNCHANGED cacheVars
    /\ UNCHANGED <<handlerVars, incoming>>
    /\ UNCHANGED labelVars
    /\ UNCHANGED <<req, selectorLabels, storeDebugMatcher, tsdbSelector, snapshot, served, quota,
                   matchers, stores, storeLabelSets, groupReplicaStores, failedStores,
                   idx, opened, storeResponses>>

Next == Reduce \/ Select \/ Open \/ Pull

\* ----------------------------------------------------------- initial states

\* the state at the entry of an operation of the proxy (Series: start, Info:
\* info) for a request, a proxy configuration and a backend snapshot
\* no query handed in, nothing left to do with it
NoQuery ==
    [values  |-> [query |-> <<>>, start |-> <<>>, end |-> <<>>],
     outcome |-> [failed |-> FALSE, err |-> <<>>],
     helper  |-> "done", handler |-> "done", hit |-> FALSE]

InitWith(entry, requests, selectors, debugMatchers, tsdbSelectors, backends, responses, total, capacities, spares) ==
    /\ req \in requests
    /\ selectorLabels \in selectors
    /\ storeDebugMatcher \in debugMatchers
    /\ tsdbSelector \in tsdbSelectors
    /\ snapshot \in SeqsUpTo(backends, MaxStores)
    /\ served = responses
    /\ quota = total
    /\ pc = entry
    /\ matchers = <<>>
    /\ stores = <<>>
    /\ storeLabelSets = <<>>
    /\ groupReplicaStores = EmptyMap
    /\ failedStores = EmptyMap
    /\ totalFailedStores = 0
    /\ idx = 1
    /\ opened = <<>>
    /\ storeResponses = <<>>
    /\ deferred = <<>>
    /\ closed = [b \in 1..Len(snapshot) |-> 0]
    /\ pos = <<>>
    /\ prev = NoResponse
    /\ pulled = <<>>
    /\ sent = <<>>
    /\ sendFailed = FALSE
    /\ result = "none"
    /\ calls = EmptyMap
    /\ warnings = <<>>
    /\ names = <<>>
    /\ gerr = "nil"
    /\ spare \in spares
    /\ subRequests = EmptyMap
    /\ lruCache = <<>>
    /\ callers = EmptyMap
    /\ recorded = EmptyMap
    /\ cfg \in capacities
    /\ handlerCache = <<>>
    /\ serving = EmptyMap
    /\ handlerRecorded = EmptyMap
    /\ incoming = NoQuery

Strategies == {"ABORT", "WARN", "GROUP_REPLICA"}

M(name, type, value) == [name |-> name, type |-> type, value |-> value]

\* (group key, replica key) of the backends: group g with two replicas, group h
\* with one
Keys == {<<"g", "g-0">>, <<"g", "g-1">>, <<"h", "h-0">>}

Backend(key, mint, maxt, lsets, addr, local) ==
    [gk |-> key[1], rk |-> key[2], minTime |-> mint, maxTime |-> maxt,
     labelSets |-> lsets, addr |-> addr, isLocal |-> local]

\* Series over backends that all pass the filters: every strategy and every
\* replica layout; the backends stream one series and in-stream warnings
Init ==
    InitWith("start",
        {[minTime |-> 10, maxTime |-> 20, matchers |-> <<M("a", "EQ", 1)>>,
          policy |-> p, disabled |-> d] : p \in Strategies, d \in BOOLEAN},
        {<<>>}, {<<>>}, {"nil"},
        {Backend(k, 0, 100, <<>>, 1, FALSE) : k \in Keys},
        {SeriesA, Warn}, MaxResponses, {0}, {<<>>})

Spec == Init /\ [][Next]_vars

\* backends around the edges of each filter, varied one filter at a time from
\* a backend that passes them all: time ranges touching and missing the
\* request's [10, 20], label sets, remote and local addresses
FilterBackends ==
    {Backend(<<"g", "g-0">>, t[1], t[2], <<>>, 1, FALSE) :
        t \in {<<0, 9>>, <<0, 10>>, <<20, 30>>, <<21, 30>>}}
    \cup
    {Backend(<<"g", "g-0">>, 0, 10, ls, 1, FALSE) :
        ls \in {<< << <<"a", 1>> >> >>,
                << << <<"a", 2>> >> >>,
                << << <<"a", 2>> >>, << <<"a", 1>>, <<"r", 2>> >> >>}}
    \cup
    {Backend(<<"g", "g-0">>, 0, 10, <<>>, 2, FALSE),
     Backend(<<"g", "g-0">>, 0, 10, <<>>, 1, TRUE)}

\* requests for [10, 20] whose matchers name the data label a and the
\* selector label r, or nothing, or cannot be converted
FilterRequests ==
    {[minTime |-> 10, maxTime |-> 20, matchers |-> ms,
      policy |-> "ABORT", disabled |-> TRUE] :
        ms \in {<<>>,
                <<M("a", "EQ", 1)>>,
                <<M("a", "NEQ", 1)>>,
                <<M("r", "EQ", 1)>>,
                <<M("r", "EQ", 1), M("a", "EQ", 1)>>,
                <<M("r", "EQ", 2), M("a", "EQ", 1)>>,
                <<M("a", "INVALID", 1)>>}}

\* Series over every filter input: selector labels, debug address matchers of
\* the context, TSDB selectors, backend descriptors
InitFilter ==
    InitWith("start",
        FilterRequests,
        {<<>>, << <<"r", 1>> >>},
        {<<>>,
         << <<M("__address__", "EQ", 1)>> >>,
         << <<M("__address__", "EQ", 1), M("__address__", "NEQ", 1)>>,
            <<M("__address__", "EQ", 2)>> >>},
        {"nil", <<M("a", "EQ", 1)>>},
        FilterBackends,
        {}, MaxResponses, {0}, {<<>>})

SpecFilter == InitFilter /\ [][Next]_vars

\* Series under every strategy over replicas of two groups, each with a time
\* range that overlaps the request's [10, 20] or misses it: backends that
\* pass the filters and backends that do not, and streams that fail to open
InitCounters ==
    InitWith("start",
        {[minTime |-> 10, maxTime |-> 20, matchers |-> <<M("a", "EQ", 1)>>,
          policy |-> p, disabled |-> d] : p \in Strategies, d \in BOOLEAN},
        {<<>>}, {<<>>}, {"nil"},
        {Backend(k, t[1], t[2], <<>>, 1, FALSE) :
            k \in Keys, t \in {<<0, 100>>, <<21, 30>>}},
        {SeriesA}, MaxResponses, {0}, {<<>>})

SpecCounters == InitCounters /\ [][Next]_vars

\* Series under strategy WARN over backends that pass the filters and stream
\* series with distinct keys and with equal keys and different chunks: the
\* merger and the deduplicator at work.  The backends share one descriptor,
\* which the merger does not read.
InitMerge ==
    InitWith("start",
        {[minTime |-> 10, maxTime |-> 20, matchers |-> <<M("a", "EQ", 1)>>,
          policy |-> "WARN", disabled |-> FALSE]},
        {<<>>}, {<<>>}, {"nil"},
        {Backend(<<"g", "g-0">>, 0, 100, <<>>, 1, FALSE)},
        {SeriesA, SeriesB, SeriesC}, MaxMerged, {0}, {<<>>})

SpecMerge == InitMerge /\ [][Next]_vars

\* Series over replicas that stream series A, series C with the key of A and
\* other chunks, and warnings; the warnings are forwarded
InitDedup ==
    InitWith("start",
        {[minTime |-> 10, maxTime |-> 20, matchers |-> <<M("a", "EQ", 1)>>,
          policy |-> "WARN", disabled |-> FALSE]},
        {<<>>}, {<<>>}, {"nil"},
        {Backend(<<"g", "g-0">>, 0, 100, <<>>, 1, FALSE)},
        {SeriesA, SeriesC, Warn}, MaxMerged, {0}, {<<>>})

SpecDedup == InitDedup /\ [][Next]_vars

\* --------------------------------------------------------------------- Info

\* math.MaxInt64, the initial minTime of Info: the largest integer of the
\* model's integer width
MaxInt64 == 2147483647

\* the (name, value) pairs of a set, as a label set sorted by name
RECURSIVE SortedLabels(_)
SortedLabels(pairs) ==
    IF pairs = {}
    THEN <<>>
    ELSE LET first == CHOOSE x \in pairs :
                        \A y \in pairs : NameRank(x[1]) <= NameRank(y[1])
         IN  <<first>> \o SortedLabels(pairs \ {first})

\* labelpb.ExtendSortedLabels: the label set with the labels of extend added,
\* extend winning for a name both carry
ExtendSortedLabels(lset, extend) ==
    SortedLabels({x \in Range(lset) : ~Has(extend, x[1])} \cup Range(extend))

\* proxy.go:194-202: the loop over the stores' time ranges, from entry k on
RECURSIVE InfoTimeRange(_, _, _)
InfoTimeRange(k, minTime, maxTime) ==
    IF k > Len(snapshot)
    THEN [minTime |-> minTime, maxTime |-> maxTime]
    ELSE InfoTimeRange(k + 1,
            IF snapshot[k].minTime < minTime THEN snapshot[k].minTime ELSE minTime,
            IF snapshot[k].maxTime > maxTime THEN snapshot[k].maxTime ELSE maxTime)

\* proxy.go:207-218: the label sets of the stores extended by the selector
\* labels, one per hash (the hash taken as free of collisions); the response
\* lists them in the iteration order of a map, so they are kept as a set
InfoLabelSets ==
    UNION {{ExtendSortedLabels(snapshot[k].labelSets[j], selectorLabels) :
                j \in 1..Len(snapshot[k].labelSets)} : k \in 1..Len(snapshot)}

\* the InfoResponse
InfoResponse ==
    IF Len(snapshot) = 0
    THEN [minTime |-> 0, maxTime |-> 0, labelSets |-> {}, labels |-> selectorLabels]
    ELSE LET t == InfoTimeRange(1, MaxInt64, 0) IN
         [minTime   |-> t.minTime,
          maxTime   |-> t.maxTime,
          labelSets |-> IF InfoLabelSets = {} /\ Len(selectorLabels) > 0
                        THEN {selectorLabels} ELSE InfoLabelSets,
          labels    |-> selectorLabels]

\* ProxyStore.Info
Info ==
    /\ pc = "info"
    /\ pc' = "done"
    /\ result' = InfoResponse
    /\ UNCHANGED cacheVars
    /\ UNCHANGED <<handlerVars, incoming>>
    /\ UNCHANGED labelVars
    /\ UNCHANGED <<req, selectorLabels, storeDebugMatcher, tsdbSelector, snapshot, served, quota,
                   matchers, stores, storeLabelSets, groupReplicaStores, failedStores,
                   totalFailedStores, idx, opened, storeResponses, deferred, closed,
                   pos, prev, pulled, sent, sendFailed>>

NextInfo == Info

\* backends for Info: time ranges that overlap, nest and lie below zero, no
\* label set, one, two, and one that carries the selector's label r
InfoBackends ==
    {Backend(<<"g", "g-0">>, t[1], t[2], <<>>, 1, FALSE) :
        t \in {<<100, 200>>, <<150, 300>>, <<-20, -10>>, <<-50, -5>>, <<0, 0>>}}
    \cup
    {Backend(<<"g", "g-0">>, 100, 200, ls, 1, FALSE) :
        ls \in {<< << <<"a", 1>> >> >>,
                << << <<"a", 1>> >>, << <<"a", 2>> >> >>,
                << << <<"a", 1>>, <<"r", 2>> >> >>}}

\* Info over every snapshot of these backends, without and with selector labels
InitInfo ==
    InitWith("info", {"InfoRequest"}, {<<>>, << <<"r", 1>> >>}, {<<>>}, {"nil"},
             InfoBackends, {}, 0, {0}, {<<>>})

SpecInfo == InitInfo /\ [][NextInfo]_vars

\* ---------------------------------------------------- LabelNames, LabelValues

\* strutil.MergeUnsortedSlices: the strings of the slices, sorted, each once
RECURSIVE SortedStrings(_)
SortedStrings(S) ==
    IF S = {}
    THEN <<>>
    ELSE LET first == CHOOSE x \in S : \A y \in S : NameRank(x) <= NameRank(y)
         IN  <<first>> \o SortedStrings(S \ {first})

\* strutil.MergeUnsortedSlices (mutant): the slices one after the other
MergeSlicesAppended(slices) ==
    IF Len(slices) = 0 THEN <<>>
    ELSE IF Len(slices) = 1 THEN slices[1]
    ELSE slices[1] \o slices[2]

MergeUnsortedSlices(slices) == SortedStrings(UNION {Range(slices[k]) : k \in 1..Len(slices)})

\* proxy.go:575-591, 665-687: the filter loop of LabelNames and LabelValues
\* over the snapshot, from entry k on; storeMatches is called without matchers
RECURSIVE LabelStores(_, _)
LabelStores(k, acc) ==
    IF k > Len(snapshot)
    THEN acc
    ELSE IF ~storeMatches(snapshot[k], req.minTime, req.maxTime, <<>>, storeDebugMatcher)
    THEN LabelStores(k + 1, acc)
    ELSE IF ~MatchLabelSets(tsdbSelector, snapshot[k].labelSets).matches
    THEN LabelStores(k + 1, acc)
    ELSE LabelStores(k + 1, Append(acc, k))

\* the response of LabelNames and LabelValues
LabelResponse(err, ns, ws) == [err |-> err, names |-> ns, warnings |-> ws]

\* errors.Wrapf(err, "fetch label names from store %s", st)
FetchError(st) == <<"fetch", st>>

\* proxy.go:607, 711 (mutant): an error of a backend call always fails the call
FailOnErrorAlways(r) == TRUE

\* proxy.go:607, 711: an error of a backend call is returned to the errgroup
FailOnError(r) == r.disabled

\* the zero value of storepb.LabelMatcher: what the backing array of a slice
\* holds between its length and its capacity before anything is appended
ZeroMatcher == M("", "EQ", 0)

\* MatchersForLabelSets: for every label name of the label sets, in name order,
\* one regular-expression matcher that accepts the values the sets give it
MatchersForLabelSets(lsets) ==
    LET labelNames == UNION {{lsets[k][j][1] : j \in 1..Len(lsets[k])} : k \in 1..Len(lsets)}
        ordered    == SortedStrings(labelNames)
        Values(n)  == {Get(lsets[k], n) : k \in {i \in 1..Len(lsets) : Has(lsets[i], n)}}
    IN  [i \in 1..Len(ordered) |-> M(ordered[i], "RE", Values(ordered[i]))]

\* proxy.go:585, 681: the extra matchers the TSDB selector returned for store
\* st, as MatchersForLabelSets (proxy.go:602, 705) converts them
ExtraMatchers(st) ==
    MatchersForLabelSets(MatchLabelSets(tsdbSelector, snapshot[st].labelSets).extraMatchers)

\* Go's append(s, elems...), s being r.Matchers and backing the elements of
\* its array past len(s): with room for elems they are written in place and
\* the result shares the array (aliased), otherwise s and elems are copied to
\* a new array
GoAppend(s, backing, elems) ==
    IF Len(elems) <= Len(backing)
    THEN [aliased |-> TRUE, len |-> Len(elems), copy |-> <<>>,
          backing |-> [i \in 1..Len(backing) |->
                          IF i <= Len(elems) THEN elems[i] ELSE backing[i]]]
    ELSE [aliased |-> FALSE, len |-> Len(elems), copy |-> s \o elems,
          backing |-> backing]

\* the elements of a slice that append returned, read now
SliceElems(s, backing, slice) ==
    IF slice.aliased THEN s \o SubSeq(backing, 1, slice.len) ELSE slice.copy

\* proxy.go:648-650, 575-596, 665-692: LabelValues rejects an empty label
\* name; the stores that pass the filters are queried, each by a goroutine
LabelSelect ==
    /\ pc = "labels"
    /\ IF req.op = "LabelValues" /\ req.label = ""
       THEN /\ pc' = "done"
            /\ result' = LabelResponse("invalid_argument", <<>>, <<>>)
            /\ UNCHANGED <<stores, calls, subRequests>>
       ELSE /\ pc' = "wait"
            /\ stores' = LabelStores(1, <<>>)
            /\ calls' = [st \in Range(stores') |->
                            [state |-> "running", err |-> FALSE,
                             names |-> <<>>, warnings |-> <<>>]]
            /\ subRequests' = [st \in Range(stores') |->
                                  [state |-> "none", aliased |-> FALSE, len |-> 0,
                                   copy |-> <<>>, read |-> <<>>]]
            /\ UNCHANGED result
    /\ UNCHANGED spare
    /\ UNCHANGED cacheVars
    /\ UNCHANGED <<handlerVars, incoming>>
    /\ UNCHANGED <<req, selectorLabels, storeDebugMatcher, tsdbSelector, snapshot, served, quota,
                   matchers, storeLabelSets, groupReplicaStores, failedStores,
                   totalFailedStores, idx, opened, storeResponses, deferred, closed,
                   pos, prev, pulled, sent, sendFailed, warnings, names, gerr>>

\* proxy.go:602, 705: the goroutine of store st builds the Matchers of its
\* sub-request, append(r.Matchers, MatchersForLabelSets(extraMatchers)...)
LabelAppend(st) ==
    /\ pc = "wait"
    /\ calls[st].state = "running"
    /\ subRequests[st].state = "none"
    /\ \E slice \in {GoAppend(req.matchers, spare, ExtraMatchers(st))} :
        /\ spare' = slice.backing
        /\ subRequests' = [subRequests EXCEPT ![st] =
                              [state |-> "built", aliased |-> slice.aliased,
                               len |-> slice.len, copy |-> slice.copy, read |-> <<>>]]
    /\ UNCHANGED cacheVars
    /\ UNCHANGED <<handlerVars, incoming>>
    /\ UNCHANGED <<req, selectorLabels, storeDebugMatcher, tsdbSelector, snapshot, served, quota,
                   pc, matchers, stores, storeLabelSets, groupReplicaStores, failedStores,
                   totalFailedStores, idx, opened, storeResponses, deferred, closed,
                   pos, prev, pulled, sent, sendFailed, result, calls, warnings, names, gerr>>

\* proxy.go:598-604, 700-707: st.LabelNames / st.LabelValues reads the
\* sub-request and returns in the goroutine of store st
LabelCall(st) ==
    /\ pc = "wait"
    /\ calls[st].state = "running"
    /\ subRequests[st].state = "built"
    /\ subRequests' = [subRequests EXCEPT ![st].state = "read",
                          ![st].read = SliceElems(req.matchers, spare, subRequests[st])]
    /\ UNCHANGED spare
    /\ \E out \in served :
        /\ calls' = [calls EXCEPT ![st] = [state |-> "returned", err |-> out.err,
                                           names |-> out.names, warnings |-> out.warnings]]
        /\ opened' = Append(opened, [st |-> st, err |-> IF out.err THEN "unavailable" ELSE "nil"])
    /\ UNCHANGED cacheVars
    /\ UNCHANGED <<handlerVars, incoming>>
    /\ UNCHANGED <<req, selectorLabels, storeDebugMatcher, tsdbSelector, snapshot, served, quota,
                   pc, matchers, stores, storeLabelSets, groupReplicaStores, failedStores,
                   totalFailedStores, idx, storeResponses, deferred, closed,
                   pos, prev, pulled, sent, sendFailed, result, warnings, names, gerr>>

\* proxy.go:605-622, 708-726: the goroutine of store st returns the error to
\* the errgroup (which keeps the first) or adds to warnings and names under
\* the mutex
LabelCollect(st) ==
    /\ pc = "wait"
    /\ calls[st].state = "returned"
    /\ calls' = [calls EXCEPT ![st].state = "done"]
    /\ IF calls[st].err
       THEN IF FailOnError(req)
            THEN /\ gerr' = IF gerr = "nil" THEN FetchError(st) ELSE gerr
                 /\ UNCHANGED <<warnings, names>>
            ELSE /\ warnings' = Append(warnings, FetchError(st))
                 /\ UNCHANGED <<names, gerr>>
       ELSE /\ warnings' = warnings \o calls[st].warnings
            /\ names' = Append(names, calls[st].names)
            /\ UNCHANGED gerr
    /\ UNCHANGED <<spare, subRequests>>
    /\ UNCHANGED cacheVars
    /\ UNCHANGED <<handlerVars, incoming>>
    /\ UNCHANGED <<req, selectorLabels, storeDebugMatcher, tsdbSelector, snapshot, served, quota,
                   pc, matchers, stores, storeLabelSets, groupReplicaStores, failedStores,
                   totalFailedStores, idx, opened, storeResponses, deferred, closed,
                   pos, prev, pulled, sent, sendFailed, result>>

\* proxy.go:625-634, 729-738: g.Wait() and the response
LabelWait ==
    /\ pc = "wait"
    /\ \A st \in DOMAIN calls : calls[st].state = "done"
    /\ pc' = "done"
    /\ result' = IF gerr # "nil"
                 THEN LabelResponse(gerr, <<>>, <<>>)
                 ELSE LabelResponse("nil", MergeUnsortedSlices(names), warnings)
    /\ UNCHANGED <<spare, subRequests>>
    /\ UNCHANGED cacheVars
    /\ UNCHANGED <<handlerVars, incoming>>
    /\ UNCHANGED <<req, selectorLabels, storeDebugMatcher, tsdbSelector, snapshot, served, quota,
                   matchers, stores, storeLabelSets, groupReplicaStores, failedStores,
                   totalFailedStores, idx, opened, storeResponses, deferred, closed,
                   pos, prev, pulled, sent, sendFailed, calls, warnings, names, gerr>>

NextLabels ==
    \/ LabelSelect
    \/ \E st \in DOMAIN calls : LabelAppend(st) \/ LabelCall(st) \/ LabelCollect(st)
    \/ LabelWait

\* a LabelNamesRequest or LabelValuesRequest for [10, 20]
LabelRequest(op, label, ms, disabled) ==
    [op |-> op, label |-> label, minTime |-> 10, maxTime |-> 20,
     matchers |-> ms, disabled |-> disabled]

\* what a backend call returns: an error, or names and warnings
LabelOutcomes ==
    {LabelResponse(TRUE, <<>>, <<>>)}
    \cup {LabelResponse(FALSE, ns, ws) :
            ns \in {<<"a">>, <<"r", "a">>}, ws \in {<<>>, << <<"w">> >>}}

\* LabelNames and LabelValues over backends that pass the filters and fail or
\* answer, with partial response disabled or not
InitLabels ==
    InitWith("labels",
        {LabelRequest("LabelNames", "", <<>>, d) : d \in BOOLEAN}
            \cup {LabelRequest("LabelValues", l, <<>>, d) : l \in {"", "a"}, d \in BOOLEAN},
        {<<>>}, {<<>>}, {"nil"},
        {Backend(k, 0, 100, <<>>, 1, FALSE) : k \in {<<"g", "g-0">>, <<"g", "g-1">>}},
        LabelOutcomes, 0, {0}, {<<>>})

SpecLabels == InitLabels /\ [][NextLabels]_vars

\* LabelNames and LabelValues over backends around the filters, for matchers
\* that name the data label a and the selector label r; every call answers
InitLabelFilter ==
    InitWith("labels",
        {LabelRequest(op, "a", ms, FALSE) :
            op \in {"LabelNames", "LabelValues"},
            ms \in {<<>>, <<M("a", "EQ", 1)>>, <<M("r", "EQ", 2), M("a", "EQ", 1)>>}},
        {<<>>, << <<"r", 1>> >>},
        {<<>>, << <<M("__address__", "EQ", 1)>> >>},
        {"nil", <<M("a", "EQ", 1)>>},
        {Backend(<<"g", "g-0">>, 0, 10, <<>>, 1, FALSE),
         Backend(<<"g", "g-0">>, 21, 30, <<>>, 1, FALSE),
         Backend(<<"g", "g-0">>, 0, 10, << << <<"a", 2>> >> >>, 1, FALSE),
         Backend(<<"g", "g-0">>, 0, 10, << << <<"a", 1>> >> >>, 2, FALSE)},
        {LabelResponse(FALSE, <<"a">>, <<>>)}, 0, {0}, {<<>>})

SpecLabelFilter == InitLabelFilter /\ [][NextLabels]_vars

\* Largest number of elements the backing array of r.Matchers has room for
\* past its length (cap(r.Matchers) - len(r.Matchers)).
MaxSpare == 1

\* LabelNames and LabelValues with a TSDB selector that keeps every label set
\* of the backends, over backends that announce a = 1, a = 2 or no label set;
\* r.Matchers is full or has room left; every call answers
InitSubRequests ==
    InitWith("labels",
        {LabelRequest(op, "a", ms, FALSE) :
            op \in {"LabelNames", "LabelValues"},
            ms \in {<<>>, <<M("r", "EQ", 1)>>}},
        {<<>>}, {<<>>},
        {"nil", <<M("a", "NEQ", 3)>>},
        {Backend(<<"g", "g-0">>, 0, 100, << << <<"a", 1>> >> >>, 1, FALSE),
         Backend(<<"g", "g-1">>, 0, 100, << << <<"a", 2>> >> >>, 2, FALSE),
         Backend(<<"h", "h-0">>, 0, 100, <<>>, 3, FALSE)},
        {LabelResponse(FALSE, <<"a">>, <<>>)}, 0, {0},
        SeqsUpTo({ZeroMatcher}, MaxSpare))

SpecSubRequests == InitSubRequests /\ [][NextLabels]_vars

\* ---------------------------------------------------------- FailedQueryCache

\* lru.New(capacity): the largest number of entries of the cache
Capacity == 1

\* utils.go:20
cacheableResponseCodes == {408, 504, 400}

\* isCacheableError (mutant): every code is cached
isCacheableErrorAny(statusCode) == TRUE

\* isCacheableError
isCacheableError(statusCode) == statusCode \in cacheableResponseCodes

\* the regular expression [\s\n\t]+ of normalizeQueryString
IsSpace(ch) == ch \in {" ", "\n", "\t"}

\* normalizeQueryString: every run of white space of the query, a sequence of
\* characters, replaced by one blank
RECURSIVE normalizeQueryString(_)
normalizeQueryString(query) ==
    IF query = <<>>
    THEN <<>>
    ELSE LET n    == Len(query)
             init == normalizeQueryString(SubSeq(query, 1, n - 1))
         IN  IF ~IsSpace(query[n]) THEN Append(init, query[n])
             ELSE IF n > 1 /\ IsSpace(query[n - 1]) THEN init
             ELSE Append(init, " ")

\* getQueryRangeSeconds: end - start, or 0 when start or end is missing or no
\* integer (<<>>)
getQueryRangeSeconds(values) ==
    IF values.start = <<>> THEN 0
    ELSE IF values.end = <<>> THEN 0
    ELSE values.end[1] - values.start[1]

\* lru.Cache.Contains
lruContains(cache, key) == \E k \in 1..Len(cache) : cache[k].key = key

\* the entries of the cache other than key's
lruWithout(cache, key) ==
    LET Other(e) == e.key # key IN SelectSeq(cache, Other)

\* lru.Cache.Add: the entry becomes the most recently used; a new entry evicts
\* the least recently used one when the cache is full
lruAdd(cache, key, value) ==
    LET added == Append(lruWithout(cache, key), [key |-> key, value |-> value])
    IN  IF Len(added) > Capacity THEN Tail(added) ELSE added

\* lru.Cache.Get: the value, and the entry becomes the most recently used
lruGet(cache, key) ==
    IF lruContains(cache, key)
    THEN LET e == CHOOSE x \in Range(cache) : x.key = key
         IN  [ok |-> TRUE, value |-> e.value, cache |-> Append(lruWithout(cache, key), e)]
    ELSE [ok |-> FALSE, value |-> 0, cache |-> cache]

\* the keys Add evicts
Evicted(cache, after) == {e.key : e \in Range(cache)} \ {e.key : e \in Range(after)}

\* the range lengths recorded for a key since it was last evicted, and ever
RecordedLive(q) == IF q \in DOMAIN recorded THEN recorded[q].live ELSE {}
RecordedEver(q) == IF q \in DOMAIN recorded THEN recorded[q].ever ELSE {}

\* the history after a call recorded length for key q and left the cache as
\* after: the keys evicted have no live length any more
Record(q, length, after) ==
    LET gone == Evicted(lruCache, after) IN
    [k \in (DOMAIN recorded) \cup {q} |->
        [live |-> IF k = q THEN RecordedLive(k) \cup {length}
                  ELSE IF k \in gone THEN {} ELSE RecordedLive(k),
         ever |-> IF k = q THEN RecordedEver(k) \cup {length} ELSE RecordedEver(k)]]

\* utils.go:82 (mutant): the new range length wins
minKeepsNew(a, b) == a

\* min (Go builtin), utils.go:82
min(a, b) == IF a < b THEN a ELSE b

\* the callers of the cache: concurrent HTTP requests
Callers == {1, 2}

\* a caller outside updateFailedQueryCache, its last call having returned ret
Idle(ret) == [pc |-> "idle", key |-> <<>>, orig |-> 0, len |-> 0, ret |-> ret]

IsIdle(c) == IF c \in DOMAIN callers THEN callers[c].pc = "idle" ELSE TRUE

\* utils.go:144-147, 54-80: UpdateFailedQueryCache up to and with
\* lruCache.ContainsOrAdd; err is the list of the numbers n of the "Code(n)"
\* in the error's text
UpdateFailedQueryCache(c, err, values) ==
    /\ pc = "cache"
    /\ IsIdle(c)
    /\ LET queryExpressionNormalized == normalizeQueryString(values.query)
           queryExpressionRangeLength == getQueryRangeSeconds(values)
           added == lruAdd(lruCache, queryExpressionNormalized, queryExpressionRangeLength)
       IN  IF err = <<>> \/ ~isCacheableError(err[1])
           THEN /\ callers' = Put(callers, c, Idle(FALSE))
                /\ UNCHANGED <<lruCache, recorded>>
           ELSE IF ~lruContains(lruCache, queryExpressionNormalized)
           THEN /\ lruCache' = added
                /\ callers' = Put(callers, c, Idle(TRUE))
                /\ recorded' = Record(queryExpressionNormalized,
                                      queryExpressionRangeLength, added)
           ELSE /\ callers' = Put(callers, c,
                                  [pc |-> "get", key |-> queryExpressionNormalized,
                                   orig |-> queryExpressionRangeLength,
                                   len |-> queryExpressionRangeLength, ret |-> FALSE])
                /\ UNCHANGED <<lruCache, recorded>>
    /\ UNCHANGED proxyVars
    /\ UNCHANGED handlerVars

\* utils.go:81-83: lruCache.Get and the minimum of the stored and the new value
UpdateGet(c) ==
    /\ pc = "cache"
    /\ c \in DOMAIN callers
    /\ callers[c].pc = "get"
    /\ LET g == lruGet(lruCache, callers[c].key) IN
        /\ lruCache' = g.cache
        /\ callers' = [callers EXCEPT
                            ![c].pc = "add",
                            ![c].len = IF g.ok THEN min(callers[c].len, g.value)
                                       ELSE callers[c].len]
    /\ UNCHANGED recorded
    /\ UNCHANGED proxyVars
    /\ UNCHANGED handlerVars

\* utils.go:84-88: lruCache.Add and return true
UpdateAdd(c) ==
    /\ pc = "cache"
    /\ c \in DOMAIN callers
    /\ callers[c].pc = "add"
    /\ LET added == lruAdd(lruCache, callers[c].key, callers[c].len) IN
        /\ lruCache' = added
        /\ recorded' = Record(callers[c].key, callers[c].orig, added)
    /\ callers' = [callers EXCEPT ![c] = Idle(TRUE)]
    /\ UNCHANGED proxyVars
    /\ UNCHANGED handlerVars

\* utils.go:151-155, 92-99: QueryHitCache
QueryHitCache(c, values) ==
    /\ pc = "cache"
    /\ IsIdle(c)
    /\ LET g == lruGet(lruCache, normalizeQueryString(values.query)) IN
        /\ lruCache' = g.cache
        /\ callers' = Put(callers, c, Idle(g.ok /\ g.value <= getQueryRangeSeconds(values)))
    /\ UNCHANGED recorded
    /\ UNCHANGED proxyVars
    /\ UNCHANGED handlerVars

\* the url.Values of the requests: two spellings of one query and another
\* query, over 3 and 5 seconds and without a start
QueryValues ==
    {[query |-> q, start |-> t[1], end |-> t[2]] :
        q \in {<<"a", " ", "b">>, <<"a", "\n", " ", "b">>, <<"c">>},
        t \in {<< <<0>>, <<3>> >>, << <<0>>, <<5>> >>, << <<>>, <<5>> >>}}

\* the errors of the failed requests, as the numbers of their "Code(n)"
QueryErrors == {<<400>>, <<408>>, <<504>>, <<500>>, <<>>}

NextCache ==
    /\ \E c \in Callers :
        \/ \E err \in QueryErrors, values \in QueryValues :
                UpdateFailedQueryCache(c, err, values)
        \/ UpdateGet(c)
        \/ UpdateAdd(c)
        \/ \E values \in QueryValues : QueryHitCache(c, values)
    /\ UNCHANGED incoming

InitCache == InitWith("cache", {"none"}, {<<>>}, {<<>>}, {"nil"}, {}, {}, 0, {0}, {<<>>})

SpecCache == InitCache /\ [][NextCache]_vars

\* ------------------------------------------------------------------ Handler

\* NewHandler, part_000:80-86 (mutant): the Handler always has a cache
lruNilNever == FALSE

\* NewHandler, part_000:80-86: without a positive capacity the Handler has no cache
lruNil == cfg <= 0

\* the range lengths the Handler recorded for a key since it was last evicted
HandlerRecordedLive(q) == IF q \in DOMAIN handlerRecorded THEN handlerRecorded[q] ELSE {}

\* the history after a request recorded length for key q and left the
\* Handler's cache as after
HandlerRecord(q, length, after) ==
    LET gone == Evicted(handlerCache, after) IN
    [k \in (DOMAIN handlerRecorded) \cup {q} |->
        IF k = q THEN HandlerRecordedLive(k) \cup {length}
        ELSE IF k \in gone THEN {} ELSE HandlerRecordedLive(k)]

\* ServeHTTP has returned: the status written ("forbidden" for 403, "ok" for
\* the status of the round tripper's response, "error" for writeError) and
\* whether cachedHits was incremented
Responded(status, inc) ==
    [pc |-> "idle", key |-> <<>>, orig |-> 0, len |-> 0, status |-> status, inc |-> inc]

IsServed(c) == IF c \in DOMAIN serving THEN serving[c].pc = "idle" ELSE TRUE

\* part_000:131-175: ServeHTTP up to the round trip: the look-up in the cache
ServeHTTP(c, values) ==
    /\ IsServed(c)
    /\ IF lruNil
       THEN /\ serving' = Put(serving, c,
                              [pc |-> "trip", key |-> <<>>, orig |-> 0, len |-> 0,
                               status |-> "none", inc |-> FALSE])
            /\ UNCHANGED handlerCache
       ELSE LET queryExpressionNormalized == normalizeQueryString(values.query)
                queryExpressionRangeLength == getQueryRangeSeconds(values)
                g == lruGet(handlerCache, queryExpressionNormalized)
            IN  /\ handlerCache' = g.cache
                /\ serving' = Put(serving, c,
                        IF g.ok /\ g.value >= queryExpressionRangeLength
                        THEN Responded("forbidden", TRUE)
                        ELSE [pc |-> "trip", key |-> queryExpressionNormalized,
                              orig |-> queryExpressionRangeLength,
                              len |-> queryExpressionRangeLength,
                              status |-> "none", inc |-> FALSE])
    /\ UNCHANGED <<cfg, handlerRecorded>>
    /\ UNCHANGED proxyVars
    /\ UNCHANGED cacheVars

\* part_000:177-224: the round trip and what follows it; on an error
\* Handler.updateFailedQueryCache (226-265) up to and with ContainsOrAdd
RoundTrip(c, outcome) ==
    /\ c \in DOMAIN serving
    /\ serving[c].pc = "trip"
    /\ LET q     == serving[c].key
           L     == serving[c].len
           added == lruAdd(handlerCache, q, L)
       IN  IF ~outcome.failed
           THEN /\ serving' = [serving EXCEPT ![c] = Responded("ok", FALSE)]
                /\ UNCHANGED <<handlerCache, handlerRecorded>>
           ELSE IF lruNil \/ outcome.err = <<>> \/ ~isCacheableError(outcome.err[1])
           THEN /\ serving' = [serving EXCEPT ![c] = Responded("error", FALSE)]
                /\ UNCHANGED <<handlerCache, handlerRecorded>>
           ELSE IF ~lruContains(handlerCache, q)
           THEN /\ handlerCache' = added
                /\ handlerRecorded' = HandlerRecord(q, L, added)
                /\ serving' = [serving EXCEPT ![c] = Responded("error", FALSE)]
           ELSE /\ serving' = [serving EXCEPT ![c].pc = "get", ![c].status = "error"]
                /\ UNCHANGED <<handlerCache, handlerRecorded>>
    /\ UNCHANGED cfg
    /\ UNCHANGED proxyVars
    /\ UNCHANGED cacheVars

\* part_000:266-268: lruCache.Get and the minimum of the stored and the new value
HandlerGet(c) ==
    /\ c \in DOMAIN serving
    /\ serving[c].pc = "get"
    /\ LET g == lruGet(handlerCache, serving[c].key) IN
        /\ handlerCache' = g.cache
        /\ serving' = [serving EXCEPT
                            ![c].pc = "add",
                            ![c].len = IF g.ok THEN min(serving[c].len, g.value)
                                       ELSE serving[c].len]
    /\ UNCHANGED <<cfg, handlerRecorded>>
    /\ UNCHANGED proxyVars
    /\ UNCHANGED cacheVars

\* part_000:269-279: lruCache.Add and the return of ServeHTTP
HandlerAdd(c) ==
    /\ c \in DOMAIN serving
    /\ serving[c].pc = "add"
    /\ LET added == lruAdd(handlerCache, serving[c].key, serving[c].len) IN
        /\ handlerCache' = added
        /\ handlerRecorded' = HandlerRecord(serving[c].key, serving[c].orig, added)
    /\ serving' = [serving EXCEPT ![c] = Responded("error", FALSE)]
    /\ UNCHANGED cfg
    /\ UNCHANGED proxyVars
    /\ UNCHANGED cacheVars

\* what the round tripper returns: a response, or an error with the numbers
\* of the "Code(n)" of its text
Outcomes ==
    {[failed |-> FALSE, err |-> <<>>]} \cup {[failed |-> TRUE, err |-> e] : e \in QueryErrors}

NextHandler ==
    /\ \E c \in Callers :
        \/ \E values \in QueryValues : ServeHTTP(c, values)
        \/ \E outcome \in Outcomes : RoundTrip(c, outcome)
        \/ HandlerGet(c)
        \/ HandlerAdd(c)
    /\ UNCHANGED incoming

\* Handlers with and without a failed-query cache
InitHandler ==
    InitWith("handler", {"none"}, {<<>>}, {<<>>}, {"nil"}, {}, {}, 0, {-1, 0, Capacity}, {<<>>})

SpecHandler == InitHandler /\ [][NextHandler]_vars

\* ------------------------------------------- sequential use of the two caches

\* no call of another caller is under way
Alone(c) == \A d \in Callers \ {c} : IsIdle(d) /\ IsServed(d)

\* calls of the FailedQueryCache, or requests of a Handler with a cache, one
\* after the other
NextSequential ==
    /\ \E c \in Callers :
        /\ Alone(c)
        /\ \/ /\ pc = "cache"
              /\ \/ \E err \in QueryErrors, values \in QueryValues :
                        UpdateFailedQueryCache(c, err, values)
                 \/ UpdateGet(c)
                 \/ UpdateAdd(c)
                 \/ \E values \in QueryValues : QueryHitCache(c, values)
           \/ /\ pc = "handler"
              /\ \/ \E values \in QueryValues : ServeHTTP(c, values)
                 \/ \E outcome \in Outcomes : RoundTrip(c, outcome)
                 \/ HandlerGet(c)
                 \/ HandlerAdd(c)
    /\ UNCHANGED incoming

InitSequential ==
    \/ InitCache
    \/ InitWith("handler", {"none"}, {<<>>}, {<<>>}, {"nil"}, {}, {}, 0, {Capacity}, {<<>>})

SpecSequential == InitSequential /\ [][NextSequential]_vars

\* ------------------------- one client, a Handler and a FailedQueryCache alike

\* the client hands the next query, and the outcome its round trip will have,
\* to the Handler and to the code that uses a FailedQueryCache
Arrive(values, outcome) ==
    /\ incoming.helper = "done"
    /\ incoming.handler = "done"
    /\ incoming' = [values |-> values, outcome |-> outcome,
                    helper |-> "lookup", handler |-> "arrived", hit |-> FALSE]
    /\ UNCHANGED <<proxyVars, cacheVars, handlerVars>>

\* how far the user of the FailedQueryCache, and the Handler, got
HelperAt(phase) == [incoming EXCEPT !.helper = phase]
HandlerAt(phase) == [incoming EXCEPT !.handler = phase]

\* utils.go:151-156: QueryHitCache for the query; after a miss the round trip
ClientLookup ==
    /\ incoming.helper = "lookup"
    /\ QueryHitCache(1, incoming.values)
    /\ incoming' = [incoming EXCEPT
                        !.hit    = callers'[1].ret,
                        !.helper = IF callers'[1].ret \/ ~incoming.outcome.failed
                                   THEN "done" ELSE "update"]

\* utils.go:144-149: UpdateFailedQueryCache with the error of the round trip
ClientUpdate ==
    /\ incoming.helper = "update"
    /\ UpdateFailedQueryCache(1, incoming.outcome.err, incoming.values)
    /\ incoming' = HelperAt(IF callers'[1].pc = "idle" THEN "done" ELSE "updating")

ClientGet ==
    /\ incoming.helper = "updating"
    /\ UpdateGet(1)
    /\ UNCHANGED incoming

ClientAdd ==
    /\ incoming.helper = "updating"
    /\ UpdateAdd(1)
    /\ incoming' = HelperAt("done")

\* part_000:131-175
HandlerLookup ==
    /\ incoming.handler = "arrived"
    /\ ServeHTTP(1, incoming.values)
    /\ incoming' = HandlerAt(IF serving'[1].pc = "idle" THEN "done" ELSE "serving")

\* part_000:177-279
HandlerTrip ==
    /\ incoming.handler = "serving"
    /\ RoundTrip(1, incoming.outcome)
    /\ incoming' = HandlerAt(IF serving'[1].pc = "idle" THEN "done" ELSE "serving")

HandlerUpdateGet ==
    /\ incoming.handler = "serving"
    /\ HandlerGet(1)
    /\ UNCHANGED incoming

HandlerUpdateAdd ==
    /\ incoming.handler = "serving"
    /\ HandlerAdd(1)
    /\ incoming' = HandlerAt("done")

NextLockstep ==
    \/ \E values \in QueryValues, outcome \in Outcomes : Arrive(values, outcome)
    \/ ClientLookup
    \/ ClientUpdate
    \/ ClientGet
    \/ ClientAdd
    \/ HandlerLookup
    \/ HandlerTrip
    \/ HandlerUpdateGet
    \/ HandlerUpdateAdd

\* a FailedQueryCache and a Handler with caches of one capacity, both empty
InitLockstep == InitWith("cache", {"none"}, {<<>>}, {<<>>}, {"nil"}, {}, {}, 0, {Capacity}, {<<>>})

SpecLockstep == InitLockstep /\ [][NextLockstep]_vars

\* --------------------------------------------------------------- properties

\* fan-out iterations whose newAsyncRespSet returned an error
OpenFailures == {k \in 1..Len(opened) : opened[k].err # "nil"}

\* in-stream warnings that came out of the merged stream so far
WarningsPulled == Count(pulled, IsWarning)

\* the in-stream warning reached the caller
InStreamWarningsSent == Cardinality({k \in 1..Len(sent) : sent[k] = Warn})

\* a series response reached the caller
SeriesSent == \E k \in 1..Len(sent) : IsSeries(sent[k])

\* some opened backend fails mid-stream: its stream carries a warning
MidStreamFailure ==
    \E c \in 1..Len(storeResponses) :
        ~storeResponses[c].nil /\ Warn \in Range(storeResponses[c].stream)

\* Series returned an error
ReturnedError == result \notin {"none", "ok", "panic"}

\* C1: under strategy ABORT, a request whose only eligible backend fails ends
\* with an error and no series response reaches the caller.  Stated for the
\* failure at open time, and with any error code accepted for "aborted": the
\* part of the claim that the open-time branch of Series decides.
C1_AbortOnSingleFailure ==
    (/\ pc = "done"
     /\ req.policy = "ABORT"
     /\ ~sendFailed
     /\ Len(stores) = 1
     /\ OpenFailures # {})
    => (ReturnedError /\ ~SeriesSent)

\* C2: with partial_response_disabled, a backend failure (open-time or an
\* in-stream warning) ends the request without success under every strategy,
\* and no warning is sent in place of the error.
C2_DisabledAlwaysAborts ==
    (/\ pc = "done"
     /\ req.disabled
     /\ ~sendFailed
     /\ (OpenFailures # {} \/ WarningsPulled > 0))
    => (result # "ok" /\ \A k \in 1..Len(sent) : ~IsWarning(sent[k]))

\* C3: under GROUP_REPLICA, when one replica of a group with two eligible
\* replicas fails at open time and nothing else fails, Series succeeds and
\* every response of the healthy backends reaches the caller.
C3_ReplicaFailureTolerated ==
    (/\ pc = "done"
     /\ req.policy = "GROUP_REPLICA"
     /\ ~sendFailed
     /\ Cardinality(OpenFailures) = 1
     /\ \A k \in OpenFailures :
            LenAt(groupReplicaStores, snapshot[opened[k].st].gk) = 2
     /\ ~MidStreamFailure)
    => /\ result = "ok"
       /\ Len(opened) = Len(stores)
       /\ \A c \in 1..Len(storeResponses) :
            ~storeResponses[c].nil => Range(storeResponses[c].stream) \subseteq Range(sent)

\* C4: under GROUP_REPLICA an open-time failure of (group, replica) aborts the
\* request there iff more than one replica key of the group has failed, or
\* the group has one eligible replica key and it failed more than once;
\* otherwise fan-out goes on with the next backend.
C4_GroupReplicaDecision ==
    [][(/\ pc = "fanout"
        /\ req.policy = "GROUP_REPLICA"
        /\ Len(opened') = Len(opened) + 1
        /\ opened'[Len(opened')].err # "nil")
       => LET b     == snapshot[stores[idx]]
              abort == \/ LenAt(failedStores', b.gk) > 1
                       \/ /\ LenAt(groupReplicaStores, b.gk) = 1
                          /\ ValAt(failedStores', b.gk, b.rk) > 1
          IN  IF abort
              THEN pc' = "done" /\ result' = opened'[Len(opened')].err
              ELSE /\ pc' = (IF idx < Len(stores) THEN "fanout" ELSE "merge")
                   /\ idx' = idx + 1
                   /\ result' = "none"
      ]_vars

\* every eligible replica key of the group of backend st has failed at open time
GroupExhausted(st) ==
    LET gk == snapshot[st].gk IN
    /\ gk \in DOMAIN failedStores
    /\ DOMAIN groupReplicaStores[gk] \subseteq DOMAIN failedStores[gk]

\* C5: under GROUP_REPLICA the request is aborted at the open-time failure
\* that leaves a group without a healthy replica (g-0 tolerated, then the sole
\* replica h-0: aborted), so Series never succeeds then.
C5_ExhaustedGroupAborts ==
    (/\ req.policy = "GROUP_REPLICA"
     /\ \E k \in OpenFailures : GroupExhausted(opened[k].st))
    => (pc = "done" /\ ReturnedError)

\* C6: under strategy WARN, when exactly one eligible backend fails at open
\* time and the others succeed, the caller gets exactly one warning, Series
\* succeeds and every response of the healthy backends is forwarded.
C6_WarnOneOpenFailure ==
    (/\ pc = "done"
     /\ req.policy = "WARN"
     /\ ~sendFailed
     /\ Cardinality(OpenFailures) = 1
     /\ ~MidStreamFailure)
    => /\ result = "ok"
       /\ Len(opened) = Len(stores)
       /\ Count(sent, IsWarning) = 1
       /\ \A c \in 1..Len(storeResponses) :
            Range(storeResponses[c].stream) \subseteq Range(sent)
       /\ \A k \in 1..Len(sent) :
            IsSeries(sent[k]) =>
                \E c \in 1..Len(storeResponses) : sent[k] \in Range(storeResponses[c].stream)

\* C6 witness: one of two backends failed to open, the other's series arrived
C6_Witness ==
    /\ pc = "done"
    /\ req.policy = "WARN"
    /\ Len(stores) = 2
    /\ Cardinality(OpenFailures) = 1
    /\ ~MidStreamFailure
    /\ SeriesA \in Range(sent)
    /\ result = "ok"

\* C7: under GROUP_REPLICA the first in-stream warning is forwarded and
\* tolerated; a warning that takes total_failed above 1 aborts with code
\* aborted, so at most one in-stream warning is tolerated per request.
C7_GroupReplicaOneWarning ==
    req.policy = "GROUP_REPLICA" =>
        /\ InStreamWarningsSent <= 1
        /\ (WarningsPulled = 1 =>
                /\ result # "aborted"
                /\ (~sendFailed => InStreamWarningsSent = 1))
        /\ (WarningsPulled >= 2 =>
                /\ WarningsPulled = 2
                /\ pc = "done"
                /\ result = "aborted")
        /\ ((/\ Len(pulled) > 0
             /\ IsWarning(pulled[Len(pulled)])
             /\ totalFailedStores > 1) => (pc = "done" /\ result = "aborted"))

\* C7 witness: a second in-stream warning aborted the request
C7_Witness ==
    /\ req.policy = "GROUP_REPLICA"
    /\ WarningsPulled = 2
    /\ InStreamWarningsSent = 1
    /\ result = "aborted"

\* C8: under strategy ABORT, or WARN with partial response disabled, the
\* first in-stream warning aborts with code aborted and is not forwarded;
\* under WARN with partial response enabled every warning is forwarded and the
\* request runs to completion.
C8_WarningUnderAbortAndWarn ==
    /\ ((req.policy = "ABORT" \/ (req.policy = "WARN" /\ req.disabled)) =>
            /\ InStreamWarningsSent = 0
            /\ (WarningsPulled >= 1 =>
                    /\ WarningsPulled = 1
                    /\ pc = "done"
                    /\ result = "aborted"))
    /\ ((req.policy = "WARN" /\ ~req.disabled) =>
            /\ result # "aborted"
            /\ (~sendFailed => InStreamWarningsSent = WarningsPulled)
            /\ ((pc = "done" /\ ~sendFailed) =>
                    /\ result = "ok"
                    /\ Len(opened) = Len(stores)
                    /\ Live(pos) = {}))

\* C8 witness: strategy WARN with partial response disabled, a series was
\* forwarded and the warning that followed aborted the request
C8_Witness ==
    /\ req.policy = "WARN"
    /\ req.disabled
    /\ WarningsPulled = 1
    /\ SeriesSent
    /\ result = "aborted"

\* the backends contacted during fan-out
Contacted == {opened[k].st : k \in 1..Len(opened)}

\* filter 1: the request's time range overlaps the backend's
TimeOverlap(b) == req.minTime <= b.maxTime /\ req.maxTime >= b.minTime

\* filter 2: without debug matchers every backend passes; with them a backend
\* passes iff it is remote and its address satisfies every address matcher of
\* at least one matcher group
AddressAccepted(b) ==
    \/ storeDebugMatcher = <<>>
    \/ /\ ~b.isLocal
       /\ \E g \in 1..Len(storeDebugMatcher) :
            \A j \in 1..Len(storeDebugMatcher[g]) :
                storeDebugMatcher[g][j].name = "__address__"
                    => Matches(storeDebugMatcher[g][j], b.addr)

\* filter 3: no label set, or some label set in which every reduced matcher
\* whose name the set carries is satisfied
ExternalLabelsAccepted(b) ==
    \/ b.labelSets = <<>>
    \/ \E k \in 1..Len(b.labelSets) :
          \A j \in 1..Len(matchers) :
              \A e \in 1..Len(b.labelSets[k]) :
                  b.labelSets[k][e][1] = matchers[j].name
                      => Matches(matchers[j], b.labelSets[k][e][2])

\* filter 4: the TSDB selector accepts the backend's label sets
SelectorAccepted(b) ==
    \/ tsdbSelector = "nil"
    \/ b.labelSets = <<>>
    \/ \E k \in 1..Len(b.labelSets) :
          \A j \in 1..Len(tsdbSelector) :
              Matches(tsdbSelector[j], Get(b.labelSets[k], tsdbSelector[j].name))

\* the backends of the snapshot that all four filters accept
Accepted ==
    {k \in 1..Len(snapshot) :
        /\ TimeOverlap(snapshot[k])
        /\ AddressAccepted(snapshot[k])
        /\ ExternalLabelsAccepted(snapshot[k])
        /\ SelectorAccepted(snapshot[k])}

\* C9: for a request that passes matcher reduction, the backends Series fans
\* out to are exactly those all four filters accept (time overlap, debug
\* address matcher, external-label matcher, TSDB selector), each once and in
\* snapshot order; a rejected backend is never contacted, and once fan-out has
\* run through every accepted backend has been opened.
C9_FilterComposition ==
    /\ Contacted \subseteq Accepted
    /\ (pc \in {"fanout", "merge"} \/ (pc = "done" /\ stores # <<>>)) =>
            /\ Range(stores) = Accepted
            /\ \A i, j \in 1..Len(stores) : i < j => stores[i] < stores[j]
            /\ \A k \in 1..Len(opened) : opened[k].st = stores[k]
    /\ (pc = "merge" \/ (pc = "done" /\ result = "ok" /\ matchers # <<>>)) =>
            Contacted = Accepted

\* C9 witness: of two backends one is rejected by a filter, the other has been
\* opened, under debug address matchers and a TSDB selector
C9_Witness ==
    /\ pc = "merge"
    /\ Len(snapshot) = 2
    /\ Contacted = {2}
    /\ Accepted = {2}
    /\ storeDebugMatcher # <<>>
    /\ tsdbSelector # "nil"
    /\ snapshot[2].labelSets # <<>>

\* the request matchers convert to matchers
Convertible == \A k \in 1..Len(req.matchers) : req.matchers[k].type # "INVALID"

\* a request matcher names a selector label whose value it does not match
Inconsistent ==
    \E k \in 1..Len(req.matchers) :
        /\ Has(selectorLabels, req.matchers[k].name)
        /\ ~Matches(req.matchers[k], Get(selectorLabels, req.matchers[k].name))

\* every request matcher names a selector label: reduction leaves none
LeavesNoMatcher ==
    \A k \in 1..Len(req.matchers) : Has(selectorLabels, req.matchers[k].name)

\* C10: a request whose matchers are inconsistent with the selector labels
\* ends in success with no response and no backend opened; a request whose
\* reduction succeeds and leaves no matcher ends in invalid_argument with no
\* backend opened.
C10_MatcherReduction ==
    (pc # "start" /\ Convertible) =>
        /\ Inconsistent =>
              (pc = "done" /\ result = "ok" /\ sent = <<>> /\ opened = <<>>)
        /\ (~Inconsistent /\ LeavesNoMatcher) =>
              (pc = "done" /\ result = "invalid_argument" /\ sent = <<>> /\ opened = <<>>)
        /\ (~Inconsistent /\ ~LeavesNoMatcher) => result # "invalid_argument"

\* C10 witness: selector r=1 and request matchers r=2, a=1 (S3): Series has
\* returned success without sub-requests although a backend was known
C10_Witness ==
    /\ pc = "done"
    /\ selectorLabels # <<>>
    /\ Convertible
    /\ Inconsistent
    /\ Len(snapshot) > 0
    /\ result = "ok"

\* the merge key of a series response
SeriesKey(resp) == [none |-> FALSE, lset |-> resp.lset, minTime |-> FirstMinTime(resp)]

\* C11: over backends that stream in the stream ordering, every series
\* forwarded to the caller is not before any series forwarded earlier, and the
\* response the merger hands out comes from the cursor whose key is not after
\* the current key of any live cursor and is strictly before the current key
\* of every live cursor with a smaller index (among equal keys the smaller
\* cursor index goes first).
C11_SeriesOrdering ==
    [][(pc = "merge" /\ Len(pulled') = Len(pulled) + 1)
       => LET r    == pulled'[Len(pulled')]
              from == {c \in 1..Len(storeResponses) :
                          pos'[c] > pos[c] /\ StreamOf(c)[pos'[c]] = r}
          IN  /\ Cardinality(from) = 1
              /\ \A c \in from :
                    \A d \in Live(pos') :
                        /\ ~KeyLess(HeadKey(pos', d), KeyAt(StreamOf(c), pos'[c]))
                        /\ (d < c => KeyLess(KeyAt(StreamOf(c), pos'[c]), HeadKey(pos', d)))
              /\ (IsSeries(r) /\ sent' # sent) =>
                    \A k \in 1..Len(sent) :
                        IsSeries(sent[k]) => ~KeyLess(SeriesKey(r), SeriesKey(sent[k]))
      ]_vars

\* C11 witness: cursor 1 streams C, B and cursor 2 streams A, B, where A and C
\* have equal keys: C of cursor 1 was forwarded first, then A, then B once
C11_Witness ==
    /\ pc = "done"
    /\ result = "ok"
    /\ Len(storeResponses) = 2
    /\ storeResponses[1].stream = <<SeriesC, SeriesB>>
    /\ storeResponses[2].stream = <<SeriesA, SeriesB>>
    /\ sent = <<SeriesC, SeriesA, SeriesB>>

\* what the caller gets from one backend that streams s: s without the series
\* that repeat the response before them
RECURSIVE Collapse(_)
Collapse(s) ==
    IF Len(s) <= 1
    THEN s
    ELSE LET init == Collapse(SubSeq(s, 1, Len(s) - 1))
             r    == s[Len(s)]
         IN  IF IsSeries(r) /\ r = s[Len(s) - 1] THEN init ELSE Append(init, r)

\* Series has completed over n backends, all opened, no send failed
CompletedOver(n) ==
    /\ pc = "done"
    /\ result = "ok"
    /\ Len(stores) = n
    /\ Len(storeResponses) = n
    /\ OpenFailures = {}

\* the stream holds series only, each strictly after the one before it
StrictlySortedSeries(s) ==
    /\ \A k \in 1..Len(s) : IsSeries(s[k])
    /\ \A k \in 2..Len(s) : KeyLess(KeyAt(s, k - 1), KeyAt(s, k))

\* C12 as stated: a request served by two backends with identical streams
\* forwards exactly what the same request served by one of them forwards.
C12_DedupIdempotence ==
    /\ CompletedOver(1) => sent = Collapse(storeResponses[1].stream)
    /\ (CompletedOver(2) /\ storeResponses[1].stream = storeResponses[2].stream)
            => sent = Collapse(storeResponses[1].stream)

\* C12 amended: the same, for identical streams of series whose keys strictly
\* increase (no warning, no two series with one key and different chunks).
C12_DedupIdempotenceDistinctKeys ==
    /\ CompletedOver(1) => sent = Collapse(storeResponses[1].stream)
    /\ (/\ CompletedOver(2)
        /\ storeResponses[1].stream = storeResponses[2].stream
        /\ StrictlySortedSeries(storeResponses[1].stream))
            => sent = Collapse(storeResponses[1].stream)

\* C12 witness: two backends streamed A, B each; the caller got A, B once
C12_Witness ==
    /\ CompletedOver(2)
    /\ storeResponses[1].stream = <<SeriesA, SeriesB>>
    /\ storeResponses[2].stream = <<SeriesA, SeriesB>>
    /\ sent = <<SeriesA, SeriesB>>

\* newAsyncRespSet calls for backend b that returned a cursor
OpenedCursors(b) == {k \in 1..Len(opened) : opened[k].st = b /\ opened[k].err = "nil"}

\* C13: when Series is over, every cursor opened during the request has been
\* closed exactly once, and Close is called on opened cursors only: no
\* respSet that reaches "defer respSet.Close()" is the nil respSet of a
\* failed open.
C13_CursorLifecycle ==
    /\ pc = "done" =>
            \A b \in 1..Len(snapshot) : closed[b] = Cardinality(OpenedCursors(b))
    /\ \A c \in 1..Len(storeResponses) : ~storeResponses[c].nil
    /\ \A k \in 1..Len(deferred) : OpenedCursors(deferred[k]) # {}

\* C13 under the strategies ABORT and WARN (used to delimit the failure)
C13_CursorLifecycleAbortWarn == req.policy # "GROUP_REPLICA" => C13_CursorLifecycle

\* C14: once a srv.Send call has failed, for a merged response or for an
\* open-time warning, Series is over with code unknown (and nothing is sent
\* after the failure, no step being taken once Series is over).
C14_SendFailureUnknown == sendFailed => (pc = "done" /\ result = "unknown")

\* C14 for the pull loop alone: a failed send of a merged response
C14_SendFailureInPullLoop ==
    (sendFailed /\ result # "send_error") => (pc = "done" /\ result = "unknown")

\* the smallest and the largest element of a non-empty set of integers
MinOf(S) == CHOOSE x \in S : \A y \in S : x <= y
MaxOf(S) == CHOOSE x \in S : \A y \in S : x >= y

\* C15: Info returns the minimum of the backends' min_time values and the
\* maximum of their max_time values, negative ones included; for an empty
\* snapshot it returns 0 and 0.
C15_InfoTimeRange ==
    (pc = "done" /\ req = "InfoRequest") =>
        IF Len(snapshot) = 0
        THEN result.minTime = 0 /\ result.maxTime = 0
        ELSE /\ result.minTime = MinOf({snapshot[k].minTime : k \in 1..Len(snapshot)})
             /\ result.maxTime = MaxOf({snapshot[k].maxTime : k \in 1..Len(snapshot)})

\* C15 for backends whose largest max_time is not below zero
C15_InfoTimeRangeFromZero ==
    (\E k \in 1..Len(snapshot) : snapshot[k].maxTime >= 0) => C15_InfoTimeRange

\* a label set with the selector labels merged in, as a set of (name, value)
\* pairs: the selector's pairs, and the set's pairs under other names
SelectorMerged(lset) ==
    Range(selectorLabels)
        \cup {x \in Range(lset) : \A y \in Range(selectorLabels) : y[1] # x[1]}

\* the union over the backends of their label sets merged with the selector
MergedUnion ==
    UNION {{SelectorMerged(snapshot[k].labelSets[j]) :
                j \in 1..Len(snapshot[k].labelSets)} : k \in 1..Len(snapshot)}

\* C16: Info returns the union of the backends' label sets merged with the
\* selector labels; when the union is empty and there are selector labels,
\* the empty snapshot included, it returns the selector labels as the single
\* label set.
C16_InfoLabelSets ==
    (pc = "done" /\ req = "InfoRequest") =>
        /\ \A ls \in result.labelSets :
                \A i, j \in 1..Len(ls) : i < j => NameRank(ls[i][1]) < NameRank(ls[j][1])
        /\ {Range(ls) : ls \in result.labelSets} =
                IF MergedUnion = {} /\ selectorLabels # <<>>
                THEN {Range(selectorLabels)}
                ELSE MergedUnion

\* C16 for a snapshot that is not empty
C16_InfoLabelSetsOfBackends == Len(snapshot) > 0 => C16_InfoLabelSets

\* LabelNames, or LabelValues for a label name, is over
LabelCallOver == pc = "done" /\ ~(req.op = "LabelValues" /\ req.label = "")

\* the queried backends whose call returned an error
FailedCalls == {st \in DOMAIN calls : calls[st].err}

\* the warnings returned by the queried backends that answered
AnsweredWarnings ==
    SeqSum([k \in 1..Len(stores) |->
                IF calls[stores[k]].err THEN 0 ELSE Len(calls[stores[k]].warnings)])

\* C17: with partial response disabled, LabelNames and LabelValues return an
\* error and no response when a queried backend returns an error; otherwise
\* they succeed, and the warnings hold one entry per failed backend and every
\* warning of the backends that answered, in whatever order the goroutines
\* finish.  (LabelValues with an empty label name queries no backend and is
\* rejected before.)
C17_LabelsPartialResponse ==
    LabelCallOver =>
        /\ (req.disabled /\ FailedCalls # {}) =>
                /\ result.err # "nil"
                /\ result.names = <<>>
                /\ result.warnings = <<>>
        /\ ~req.disabled =>
                /\ result.err = "nil"
                /\ \A st \in DOMAIN calls :
                        Cardinality({k \in 1..Len(result.warnings) :
                                        result.warnings[k] = FetchError(st)})
                            = IF st \in FailedCalls THEN 1 ELSE 0
                /\ Cardinality({k \in 1..Len(result.warnings) : result.warnings[k] = <<"w">>})
                        = AnsweredWarnings
                /\ Len(result.warnings) = Cardinality(FailedCalls) + AnsweredWarnings

\* C17 witness: partial response enabled, store 1 failed, store 2 answered with
\* a warning and finished first
C17_Witness ==
    /\ LabelCallOver
    /\ ~req.disabled
    /\ Len(stores) = 2
    /\ calls[1].err
    /\ result.err = "nil"
    /\ result.warnings = << <<"w">>, FetchError(1) >>

\* the backends Series opens for the request's time range and matchers: none
\* unless the matchers reduce against the selector labels, else those that
\* storeMatches accepts for the reduced matchers and the TSDB selector accepts
SeriesStores ==
    LET r == matchesExternalLabels(req.matchers, selectorLabels) IN
    IF ReduceOutcome(r) # "continue"
    THEN {}
    ELSE {k \in 1..Len(snapshot) :
            /\ storeMatches(snapshot[k], req.minTime, req.maxTime, r.matchers,
                            storeDebugMatcher)
            /\ MatchLabelSets(tsdbSelector, snapshot[k].labelSets).matches}

\* C18: for a request whose matchers Series accepts, LabelNames and
\* LabelValues query exactly the backends Series would open.
C18_LabelsFilterLikeSeries ==
    (/\ pc \in {"wait", "done"}
     /\ ReduceOutcome(matchesExternalLabels(req.matchers, selectorLabels)) = "continue")
    => /\ Range(stores) = SeriesStores
       /\ Contacted \subseteq SeriesStores

\* C18 for the filters other than the label matchers: time range, debug
\* address matchers, TSDB selector
C18_LabelsFilterWithoutMatchers ==
    pc \in {"wait", "done"} =>
        Range(stores) =
            {k \in 1..Len(snapshot) :
                /\ TimeOverlap(snapshot[k])
                /\ AddressAccepted(snapshot[k])
                /\ SelectorAccepted(snapshot[k])}

\* C19: within one Series request every backend of the filtered snapshot is
\* opened at most once, in the order of the snapshot, under every strategy
\* and after every failure; a backend that failed is not opened again.
C19_NoRetries ==
    /\ Len(opened) <= Len(stores)
    /\ \A k \in 1..Len(opened) : opened[k].st = stores[k]
    /\ \A i, j \in 1..Len(opened) : i # j => opened[i].st # opened[j].st

\* C19 witness: the first backend failed to open, the second was opened, and
\* Series is over
C19_Witness ==
    /\ pc = "done"
    /\ Len(opened) = 2
    /\ opened[1].err # "nil"
    /\ opened[2].err = "nil"

\* C20: a QueryHitCache for q returns true when its range length is at least
\* a length a cacheable failure recorded for q and q has not been evicted
\* since; it returns false when q is not cached and when its range length is
\* below every length ever recorded for q.
C20_FailedQueryCacheContract ==
    [][\A c \in Callers, values \in QueryValues :
          QueryHitCache(c, values) =>
              LET q == normalizeQueryString(values.query)
                  R == getQueryRangeSeconds(values)
              IN  /\ (\E L \in RecordedLive(q) : R >= L) => callers'[c].ret
                  /\ (~lruContains(lruCache, q) \/ \A L \in RecordedEver(q) : R < L)
                        => ~callers'[c].ret
      ]_vars

\* the backends whose newAsyncRespSet call succeeded, in the order of the calls
RECURSIVE OpenedOk(_)
OpenedOk(k) ==
    IF k = 0 THEN <<>>
    ELSE IF opened[k].err = "nil" THEN Append(OpenedOk(k - 1), opened[k].st)
    ELSE OpenedOk(k - 1)

\* C21: under every strategy, the cursors collected for the merger are exactly
\* the backends whose open succeeded, in order; a failed open adds no cursor
\* and schedules no Close, and a tolerated open-time failure lets the fan-out
\* go on (Series does not end in a panic).
C21_MergerInput ==
    /\ [c \in 1..Len(storeResponses) |-> storeResponses[c].st] = OpenedOk(Len(opened))
    /\ deferred = OpenedOk(Len(opened))
    /\ result # "panic"

\* C21 under the strategies ABORT and WARN (used to delimit the failure)
C21_MergerInputAbortWarn == req.policy # "GROUP_REPLICA" => C21_MergerInput

\* every entry of the cache holds the minimum of the lengths in live(key)
HoldsMinimum(cache, live(_)) ==
    \A e \in Range(cache) : live(e.key) # {} /\ e.value = MinOf(live(e.key))

\* no key that stays in the cache gets a larger value
NeverIncreases(cache, after) ==
    \A e \in Range(cache), f \in Range(after) : e.key = f.key => f.value <= e.value

\* C22: when the updates of a cache are made one after the other, in the
\* FailedQueryCache and in the Handler, the value cached for a normalized query
\* is always the minimum of the range lengths recorded for it since it was
\* last evicted, and no step makes the value cached for a query larger.
C22_CacheMinimum ==
    /\ [](HoldsMinimum(lruCache, RecordedLive) /\ HoldsMinimum(handlerCache, HandlerRecordedLive))
    /\ [][NeverIncreases(lruCache, lruCache') /\ NeverIncreases(handlerCache, handlerCache')]_vars

\* a larger range length was recorded for a cached query after a smaller one
\* and the smaller one stayed
C22_Witness ==
    /\ pc = "cache"
    /\ \A c \in Callers : IsIdle(c)
    /\ lruCache = <<[key |-> <<"c">>, value |-> 0]>>
    /\ RecordedLive(<<"c">>) = {0, 3, 5}

\* the same in the Handler
C22_WitnessHandler ==
    /\ pc = "handler"
    /\ \A c \in Callers : IsServed(c)
    /\ handlerCache = <<[key |-> <<"c">>, value |-> 0]>>
    /\ HandlerRecordedLive(<<"c">>) = {0, 3, 5}

\* the contents of a cache: what it maps each key to
Contents(cache) == {<<e.key, e.value>> : e \in Range(cache)}

\* the Handler and the user of the FailedQueryCache are through with the query
BothDone == incoming.helper = "done" /\ incoming.handler = "done"

\* C23: whatever queries came in and whatever their round trips returned, once
\* the Handler and the FailedQueryCache helper have both dealt with a query
\* their caches hold the same contents, and they took the same decision for
\* that query: the Handler answered 403 from its cache iff QueryHitCache
\* returned true.
C23_HandlerHelperEquivalence ==
    (BothDone /\ 1 \in DOMAIN serving) =>
        /\ Contents(handlerCache) = Contents(lruCache)
        /\ (serving[1].status = "forbidden") = incoming.hit

\* C24: with updates of the FailedQueryCache running concurrently, their
\* ContainsOrAdd, Get and Add calls interleaved, the value cached for a
\* normalized query once the updates are over is the minimum of the range
\* lengths recorded for it since it was last evicted.
C24_ConcurrentMinimum ==
    (\A c \in Callers : IsIdle(c)) => HoldsMinimum(lruCache, RecordedLive)

\* C24 for the Handler's inline cache
C24_ConcurrentMinimumHandler ==
    (\A c \in Callers : IsServed(c)) => HoldsMinimum(handlerCache, HandlerRecordedLive)

\* the text of the error carries no Code(n), or n is none of 400, 408, 504
NonCacheable(err) == IF err = <<>> THEN TRUE ELSE err[1] \notin {400, 408, 504}

\* C25: an update of the FailedQueryCache with an error that carries no
\* parsable Code(n), or a code other than 400, 408 and 504, returns false and
\* leaves the cache as it is; the Handler leaves the contents of its cache as
\* they are when it looks the query up, when the round trip succeeds and when
\* it fails with such an error, and the request is then over.
C25_NonCacheableFrame ==
    [][ /\ (ClientUpdate /\ NonCacheable(incoming.outcome.err))
            => (callers'[1] = Idle(FALSE) /\ lruCache' = lruCache)
        /\ HandlerLookup => Contents(handlerCache') = Contents(handlerCache)
        /\ (HandlerTrip /\ (~incoming.outcome.failed \/ NonCacheable(incoming.outcome.err)))
            => (handlerCache' = handlerCache /\ incoming'.handler = "done")
      ]_vars

\* a query missed both caches, neither being empty, its round trip failed
\* with Code(500), and the update returned false
C25_Witness ==
    /\ BothDone
    /\ incoming.outcome = [failed |-> TRUE, err |-> <<500>>]
    /\ ~incoming.hit
    /\ callers[1] = Idle(FALSE)
    /\ serving[1].status = "error"
    /\ lruCache # <<>>
    /\ handlerCache # <<>>

\* the round trip of a query that missed the Handler's cache succeeded
C25_WitnessSucceeded ==
    /\ BothDone
    /\ ~incoming.outcome.failed
    /\ 1 \in DOMAIN serving
    /\ serving[1].status = "ok"
    /\ handlerCache # <<>>

\* C26: a request that comes in while the Handler has a cache in which its
\* normalized query is cached with a value >= its range length is answered 403
\* with cachedHits incremented, ServeHTTP returning without a round trip and
\* with the contents of the cache as they were; a Handler whose
\* FailedQueryCacheCapacity is <= 0 never answers 403 from a cache, and each
\* of its requests goes on to the round trip.
C26_HandlerShortCircuit ==
    /\ [][\A c \in Callers, values \in QueryValues :
            ServeHTTP(c, values) =>
                LET q == normalizeQueryString(values.query)
                    L == getQueryRangeSeconds(values)
                IN  /\ (cfg > 0 /\ \E e \in Range(handlerCache) : e.key = q /\ e.value >= L)
                        => /\ serving'[c] = Responded("forbidden", TRUE)
                           /\ Contents(handlerCache') = Contents(handlerCache)
                           /\ handlerRecorded' = handlerRecorded
                    /\ cfg <= 0 => serving'[c].pc = "trip"
         ]_vars
    /\ [](cfg <= 0 => /\ handlerCache = <<>>
                      /\ \A c \in DOMAIN serving : serving[c].status # "forbidden")

\* a request was answered 403 from the cache while another request, past its
\* round trip, is in updateFailedQueryCache
C26_Witness ==
    /\ cfg > 0
    /\ handlerCache # <<>>
    /\ \E c \in DOMAIN serving : serving[c] = Responded("forbidden", TRUE)
    /\ \E c \in DOMAIN serving : serving[c].pc = "get"

\* a Handler without a cache has answered a request by its round trip
C26_WitnessDisabled ==
    /\ cfg <= 0
    /\ \E c \in DOMAIN serving : serving[c].status = "ok"

\* C27: under GROUP_REPLICA every open-time failure is counted in
\* totalFailedStores; a request that has a tolerated open-time failure (one
\* that did not end the request with the error of the open) goes on, and its
\* first in-stream warning ends it with code aborted.
C27_MixedFailures ==
    (req.policy = "GROUP_REPLICA" /\ OpenFailures # {}) =>
        /\ totalFailedStores >= Cardinality(OpenFailures)
        /\ \/ result \in OpenErrors
           \/ /\ result # "panic"
              /\ WarningsPulled >= 1 => (pc = "done" /\ result = "aborted")

\* C27 for the loop over the merged responses alone: under GROUP_REPLICA a
\* warning pulled when totalFailedStores is 1 or more ends the request with
\* code aborted
C27_WarningAfterFailureAborts ==
    [][(/\ pc = "merge"
        /\ req.policy = "GROUP_REPLICA"
        /\ totalFailedStores >= 1
        /\ Len(pulled') = Len(pulled) + 1
        /\ IsWarning(pulled'[Len(pulled')]))
       => (pc' = "done" /\ result' = "aborted")
      ]_vars

\* the responses the merger took from the cursors between two positions, as
\* pairs of a cursor and an index into its stream
Consumed(p, q) ==
    UNION {{<<c, k>> : k \in (p[c] + 1)..q[c]} : c \in 1..Len(p)}

\* a series with the label set and the chunks of the series before it
DirectRepeat(last, r) ==
    IsSeries(r) /\ IsSeries(last) /\ r.lset = last.lset /\ r.chunks = last.chunks

\* C28: of the responses the deduplicator takes from the merger in one call,
\* all are dropped but the one it returns, unaltered; each dropped response is
\* a series with the label set and the chunks of the response returned last,
\* which it follows directly.  So a series with other chunks than the series
\* before it is returned whatever its key, and every warning is returned.
C28_DedupConservative ==
    [][pc = "merge" =>
        LET taken  == Consumed(pos, pos')
            kept   == {x \in taken : ~DirectRepeat(prev, StreamOf(x[1])[x[2]])}
        IN  /\ Cardinality(kept) <= 1
            /\ \A x \in kept :
                /\ Len(pulled') = Len(pulled) + 1
                /\ pulled'[Len(pulled')] = StreamOf(x[1])[x[2]]
            /\ pulled' # pulled =>
                /\ Len(pulled') = Len(pulled) + 1
                /\ \E x \in taken : pulled'[Len(pulled')] = StreamOf(x[1])[x[2]]
      ]_vars

\* C28 witness: two replicas streamed A, A and C, warning; the second A was
\* dropped, C, with the key of A and other chunks, and the warning were not
C28_Witness ==
    /\ CompletedOver(2)
    /\ storeResponses[1].stream = <<SeriesA, SeriesA>>
    /\ storeResponses[2].stream = <<SeriesC, Warn>>
    /\ sent = <<SeriesA, SeriesC, Warn>>

\* the backend passes the filters other than the debug address filter
OtherFiltersAccept(b) ==
    TimeOverlap(b) /\ ExternalLabelsAccepted(b) /\ SelectorAccepted(b)

\* C29: the filter loop keeps no backend the debug address filter rejects and
\* drops none for its address: with a non-empty matcher list in the context a
\* backend passes iff it is remote and its address satisfies every matcher of
\* at least one group; with no matcher list every backend passes, local or
\* not, and the other filters alone decide.
C29_DebugAddressFilter ==
    [][pc = "select" =>
        \A k \in 1..Len(snapshot) :
            LET b    == snapshot[k]
                pass == IF Len(storeDebugMatcher) = 0
                        THEN TRUE
                        ELSE /\ ~b.isLocal
                             /\ \E g \in 1..Len(storeDebugMatcher) :
                                    \A j \in 1..Len(storeDebugMatcher[g]) :
                                        Matches(storeDebugMatcher[g][j], b.addr)
            IN  (k \in Range(stores')) = (pass /\ OtherFiltersAccept(b))
      ]_vars

\* C29 witness: with the matcher list [[__address__ = 1]] in the context, of a
\* remote backend at address 1, and a remote backend at address 2 only
\* the first is queried
C29_Witness ==
    /\ pc = "fanout"
    /\ storeDebugMatcher = << <<M("__address__", "EQ", 1)>> >>
    /\ Len(snapshot) = 2
    /\ snapshot[1] = Backend(<<"g", "g-0">>, 0, 10, <<>>, 1, FALSE)
    /\ snapshot[2] = Backend(<<"g", "g-0">>, 0, 10, <<>>, 2, FALSE)
    /\ stores = <<1>>

\* a local backend at address 1 is rejected under the same matcher list
C29_WitnessLocalRejected ==
    /\ pc = "fanout"
    /\ storeDebugMatcher = << <<M("__address__", "EQ", 1)>> >>
    /\ Len(snapshot) = 2
    /\ snapshot[1] = Backend(<<"g", "g-0">>, 0, 10, <<>>, 1, TRUE)
    /\ snapshot[2] = Backend(<<"g", "g-0">>, 0, 10, <<>>, 1, FALSE)
    /\ stores = <<2>>

\* without a matcher list the local backend is queried
C29_WitnessLocalQueried ==
    /\ pc = "fanout"
    /\ storeDebugMatcher = <<>>
    /\ Len(snapshot) = 1
    /\ snapshot[1] = Backend(<<"g", "g-0">>, 0, 10, <<>>, 1, TRUE)
    /\ stores = <<1>>

\* the names (or values) the queried backends that answered returned
AnsweredNames == UNION {Range(calls[st].names) : st \in DOMAIN calls \ FailedCalls}

\* C30: when LabelNames or LabelValues succeeds, the list it returns is the
\* union of the lists of the backends that answered, in lexicographic order
\* and without duplicates: a function of the backends' results alone, so the
\* same in whatever order the parallel calls finish.
C30_LabelsDeterminism ==
    (LabelCallOver /\ result.err = "nil") =>
        /\ Range(result.names) = AnsweredNames
        /\ \A k \in 2..Len(result.names) :
                NameRank(result.names[k - 1]) < NameRank(result.names[k])

\* C30 witness: store 1 returned r, a and store 2 returned a; the goroutine of
\* store 2 finished first; the caller got a, r
C30_Witness ==
    /\ LabelCallOver
    /\ Len(stores) = 2
    /\ calls[1].names = <<"r", "a">>
    /\ calls[2].names = <<"a">>
    /\ names = << <<"a">>, <<"r", "a">> >>
    /\ result.names = <<"a", "r">>

\* the same results, the goroutine of store 1 finishing first
C30_WitnessOtherOrder ==
    /\ LabelCallOver
    /\ Len(stores) = 2
    /\ calls[1].names = <<"r", "a">>
    /\ calls[2].names = <<"a">>
    /\ names = << <<"r", "a">>, <<"a">> >>
    /\ result.names = <<"a", "r">>

\* C31: under every interleaving of the goroutines of LabelNames and
\* LabelValues, the matcher list the backend of store st reads from its
\* sub-request is the request's matchers followed by the matchers derived from
\* the extra matchers the TSDB selector returned for st, and for no other
\* store.
C31_SubRequestIsolation ==
    \A st \in DOMAIN subRequests :
        subRequests[st].state = "read" =>
            subRequests[st].read = req.matchers \o ExtraMatchers(st)

\* C31, the request's own matcher list: no step changes r.Matchers.
C31_RequestMatchersKept == [][req'.matchers = req.matchers]_vars

\* C31, without room in r.Matchers (cap = len) or without extra matchers every
\* append copies, and the sub-requests are isolated.
C31_IsolatedWhenCopied ==
    (spare = <<>> \/ tsdbSelector = "nil") => C31_SubRequestIsolation

\* C31: a backend has read a sub-request that holds the matcher derived for
\* another store
C31_WitnessForeignMatcher ==
    \E st \in DOMAIN subRequests, other \in DOMAIN subRequests :
        /\ other # st
        /\ subRequests[st].state = "read"
        /\ Len(ExtraMatchers(st)) = 1
        /\ Len(ExtraMatchers(other)) = 1
        /\ ExtraMatchers(other) # ExtraMatchers(st)
        /\ subRequests[st].read = req.matchers \o ExtraMatchers(other)

\* C31: two backends with different extra matchers have read their
\* sub-requests, each its own list, appended to a full r.Matchers
C31_WitnessCopied ==
    /\ spare = <<>>
    /\ \E st \in DOMAIN subRequests, other \in DOMAIN subRequests :
        /\ subRequests[st].state = "read"
        /\ subRequests[other].state = "read"
        /\ Len(ExtraMatchers(st)) = 1
        /\ Len(ExtraMatchers(other)) = 1
        /\ ExtraMatchers(other) # ExtraMatchers(st)
        /\ subRequests[st].read = req.matchers \o ExtraMatchers(st)
        /\ subRequests[other].read = req.matchers \o ExtraMatchers(other)

\* the stores of a set of snapshot entries that have group key g and replica
\* key r
WithKeys(S, g, r) == {k \in S : snapshot[k].gk = g /\ snapshot[k].rk = r}

\* the step is an open-time failure of a backend with group key g and replica
\* key r
OpenFailureOf(g, r) ==
    /\ Len(opened') = Len(opened) + 1
    /\ opened'[Len(opened')].err # "nil"
    /\ snapshot[opened'[Len(opened')].st].gk = g
    /\ snapshot[opened'[Len(opened')].st].rk = r

\* C32, the states: once the filter loop has run, eligible[g][r] is the number
\* of backends with keys (g, r) that the four filters accept; failed[g][r] is
\* the number of open-time failures of backends with those keys and is at most
\* eligible[g][r].
C32_CountersInv ==
    \A key \in Keys :
        LET g == key[1]
            r == key[2]
        IN  /\ (pc \in {"fanout", "merge"} \/ (pc = "done" /\ stores # <<>>)) =>
                    ValAt(groupReplicaStores, g, r)
                        = Cardinality(WithKeys(Accepted, g, r))
            /\ ValAt(failedStores, g, r)
                   = Cardinality({k \in OpenFailures :
                                     opened[k].st \in WithKeys(DOMAIN snapshot, g, r)})
            /\ ValAt(failedStores, g, r) <= ValAt(groupReplicaStores, g, r)

\* C32, the steps: eligible changes in the filter step only, before the first
\* open; failed[g][r] grows by one in an open-time failure of a backend with
\* keys (g, r) and is unchanged by every other step.
C32_CountersStep ==
    /\ groupReplicaStores' # groupReplicaStores =>
            pc = "select" /\ opened = <<>> /\ opened' = <<>>
    /\ \A key \in Keys :
        ValAt(failedStores', key[1], key[2])
            = ValAt(failedStores, key[1], key[2])
                + (IF OpenFailureOf(key[1], key[2]) THEN 1 ELSE 0)

\* C32: eligible[group][replica] is the number of backends with those keys
\* that passed all filters, is fixed before the first open and never changes
\* afterwards; failed[group][replica] only increases, by exactly one per
\* open-time failure of a backend with those keys, and never exceeds
\* eligible[group][replica].
C32_FailureCounters == []C32_CountersInv /\ [][C32_CountersStep]_vars

\* C32: two streams of one replica failed to open, both are counted, and a
\* backend of the snapshot was filtered out
C32_Witness ==
    /\ ValAt(failedStores, "g", "g-0") = 2
    /\ ValAt(groupReplicaStores, "g", "g-0") = 2
    /\ Len(opened) = 2

\* C32: a backend with the keys of a failed one was filtered out and is not
\* counted as eligible
C32_WitnessFiltered ==
    /\ Len(snapshot) = 2
    /\ snapshot[1].gk = snapshot[2].gk
    /\ snapshot[1].rk = snapshot[2].rk
    /\ Accepted = {2}
    /\ ValAt(groupReplicaStores, snapshot[2].gk, snapshot[2].rk) = 1
    /\ ValAt(failedStores, snapshot[2].gk, snapshot[2].rk) = 1

====
